---- MODULE Spec2Model ----
(***************************************************************************)
(* The /check route of the SEO audit service: the GET and POST handlers,   *)
(* the in-process cache and the audit orchestrator runAudit with its time  *)
(* budget, sub-request quota and degraded BLOCKED / TIMEOUT paths.         *)
(*                                                                         *)
(* Time is the value of Date.now() in milliseconds.  A handler runs from   *)
(* one await to the next without interruption (JavaScript run to           *)
(* completion); wake[s] is the instant at which the pending await of       *)
(* request slot s settles, and the slot whose await settles first runs     *)
(* next.  Outcomes and durations of outbound requests are the inputs.      *)
(***************************************************************************)
EXTENDS Integers, Sequences, FiniteSets, TLC

VARIABLES
  now,      \* Date.now() at the last continuation that ran
  CACHE,    \* the Map CACHE: key -> [payload, createdAt, expiresAt]
  req,      \* per slot: the inbound request being served
  pc,       \* per slot: the await the handler is suspended at
  wake,     \* per slot: the instant that await settles
  aud,      \* per slot: the locals of runAudit
  resp,     \* per slot: the HTTP response returned last
  served,   \* number of requests accepted so far
  env,      \* process.env and the remote world, fixed at start
  unit      \* the call of a pure function under evaluation

vars == <<now, CACHE, req, pc, wake, aud, resp, served, env, unit>>

(***************************************************************************)
(* Bounds of the model.                                                    *)
(***************************************************************************)
MaxSlots == 2          \* requests in flight at the same time
MaxRequests == 2       \* requests accepted in one run
MaxFaults == 2         \* places where the remote world departs from its usual answer
MaxTime == 200000      \* horizon of the clock, ms
MaxSlashes == 2        \* slashes written at the end of a path
MaxTries == 3          \* attempts retry is asked for
MaxSamples == 3        \* sitemap URLs sampled in one fan-out

Slots == 1..MaxSlots

(***************************************************************************)
(* Program constants.                                                      *)
(***************************************************************************)
OVERALL_BUDGET_MS == 8500
SITEMAP_SAMPLES == 1
IMAGE_HEADS == 2
TIME_PAGE_MS == 6000
TIME_ASSET_MS == 2000
TIME_SMALL_MS == 2500
TIME_PSI_MS == 3000
\* a quota one short of what the probes of one audit can ask for
QuotaOfSeven == 8 - 1
MAX_SUBREQUESTS == 8
CACHE_TTL_MS == 90000
PSI_PASS == 70         \* psi >= 70 ? "pass" : "warn"
\* the block codes without 429
BlockCodesWithout429 == {401, 403}

BLOCK_CODES == {401, 403, 429}
OMIT_CHECKS ==
  <<"mixed-content", "security-headers", "https-redirect", "compression",
    "structured-data">>

Max(a, b) == IF a > b THEN a ELSE b
Min(a, b) == IF a < b THEN a ELSE b

(***************************************************************************)
(* Checks.                                                                 *)
(***************************************************************************)
Chk(id, status) == [id |-> id, status |-> status, locked |-> FALSE]
LOCK_PLACEHOLDER(id) == [id |-> id, status |-> "locked", locked |-> TRUE]
\* the placeholders of OMIT_CHECKS alone
PlaceholdersOfOmitChecks ==
  [i \in 1..Len(OMIT_CHECKS) |-> LOCK_PLACEHOLDER(OMIT_CHECKS[i])]

Placeholders ==
  [i \in 1..Len(OMIT_CHECKS) |-> LOCK_PLACEHOLDER(OMIT_CHECKS[i])]
    \o <<LOCK_PLACEHOLDER("h1-structure"), LOCK_PLACEHOLDER("llms")>>

isOk(res) == res.kind = "res" /\ res.status >= 200 /\ res.status < 400
resOk(res) == res.kind = "res" /\ res.status >= 200 /\ res.status < 300

(***************************************************************************)
(* URLs.  A raw URL is the record of the parts the URL parser tells apart: *)
(* scheme ("" when the string has none), host as written, the path         *)
(* segments, the number of slashes written after the last segment (after   *)
(* the host when there is no segment), query and fragment.                 *)
(***************************************************************************)
LowerCase(h) ==
  CASE h = "OK.test" -> "ok.test"
    [] h = "NoIndex" -> "noindex"
    [] OTHER -> h

Url(scheme, host, segs, slashes, query, hash) ==
  [scheme |-> scheme, host |-> host, segs |-> segs, slashes |-> slashes,
   query |-> query, hash |-> hash]

\* /^https?:\/\//i.test(rawUrl) ? rawUrl : `https://${rawUrl}`
WithScheme(u) == IF u.scheme = "" THEN [u EXCEPT !.scheme = "https"] ELSE u

\* new URL(...): the host is lower-cased and an empty path is "/"
ParseUrl(u) ==
  [u EXCEPT !.host = LowerCase(u.host),
            !.slashes = IF u.segs = <<>> THEN Max(1, u.slashes) ELSE u.slashes]

\* new URL(...) throws: a host with a space in it is no host
Throws(u) == u.host = "no host.test"

\* normalizeKey that leaves u.search alone
normalizeKeyWithSearch(rawUrl) ==
  LET u == ParseUrl(WithScheme(rawUrl))
  IN  IF Throws(u) THEN rawUrl
      ELSE [u EXCEPT !.hash = "",
                     !.slashes = IF u.slashes >= 1 THEN 1 ELSE 0]

\* the key is the string origin + path, or the string given when it does
\* not parse
normalizeKey(rawUrl) ==
  LET u == ParseUrl(WithScheme(rawUrl))
  IN  IF Throws(u) THEN rawUrl
      ELSE [u EXCEPT !.hash = "", !.query = "",
                     !.slashes = IF u.slashes >= 1 THEN 1 ELSE 0]

(***************************************************************************)
(* Budget and quota of one audit.                                          *)
(***************************************************************************)
timeLeft(t, startedAt) == Max(0, OVERALL_BUDGET_MS - (t - startedAt))
\* within without its floor
withinNoFloor(ms, t, startedAt) == Min(ms, timeLeft(t, startedAt))
within(ms, t, startedAt) == Max(150, Min(ms, timeLeft(t, startedAt)))

\* spend that is never refused
spendGranted(budget, n) == TRUE
\* spend(n): whether it succeeded, and the budget afterwards
spendOk(budget, n) == ~(budget - n < 0)
\* spend without its test
spendLeftAnyway(budget, n) == budget - n
spendLeft(budget, n) == IF budget - n < 0 THEN budget ELSE budget - n

(***************************************************************************)
(* Outbound requests.  One fetch under a timer of timeoutMs either         *)
(* resolves with a response ("res"), is aborted by the timer after         *)
(* timeoutMs ("abort", an AbortError), rejects with a transient network    *)
(* error ("neterr", e.g. "fetch failed") or rejects with another error     *)
(* ("err").  The remote world is an input: every host has a usual answer   *)
(* (Fixture), and in one audit it may answer otherwise at up to            *)
(* env.maxFaults places; `faults` counts those places.                     *)
(***************************************************************************)
Res(status, dur) ==
  [kind |-> "res", status |-> status, dur |-> dur, sent |-> 1, faults |-> 0,
   late |-> FALSE, log |-> <<>>, reqs |-> <<>>]
Thrown(kind, dur) ==
  [kind |-> kind, status |-> 0, dur |-> dur, sent |-> 1, faults |-> 0,
   late |-> FALSE, log |-> <<>>, reqs |-> <<>>]
Skipped ==
  [kind |-> "skip", status |-> 0, dur |-> 0, sent |-> 0, faults |-> 0,
   late |-> FALSE, log |-> <<>>, reqs |-> <<>>]

FetchDurs == {10, 1600}
Jitters == {0, 249}          \* Math.floor(Math.random() * 250)

Statuses(resource) ==
  CASE resource \in {"page", "pageAgain"} -> {200, 404, 403}
    [] resource = "page2" -> {200, 403, 429}
    [] resource = "www" -> {200, 301}
    [] resource = "favicon" -> {200, 304, 404, 405}
    [] OTHER -> {200, 404}

\* the usual answer of a host; "pageAgain" is the page asked for a second
\* time by retry, "page2" the page asked for with BROWSER_HEADERS, "sitemap" a
\* sitemap at one of the common paths and "sitemapListed" the one robots.txt
\* lists
Fixture(host, resource) ==
  CASE host = "waf.test" /\ resource \in {"page", "pageAgain", "page2"} -> Res(403, 10)
    [] host = "slow.test" /\ resource \in {"page", "pageAgain"} -> Res(200, 9000)
    [] host = "flaky.test" /\ resource = "page" -> Thrown("neterr", 10)
    [] host = "flaky.test" /\ resource = "pageAgain" -> Res(200, 9000)
    [] host = "down.test" -> Thrown("neterr", 10)
    [] host = "listed.test" /\ resource = "sitemap" -> Res(404, 10)
    [] host = "err.test" /\ resource \in {"page", "pageAgain"} -> Res(500, 1600)
    [] resource = "www" -> Res(301, 10)
    [] resource = "psi" -> Res(200, 1600)
    [] OTHER -> Res(200, 10)

\* an input that is `usual`, or with a fault left any of `all`
Opt(usual, all, k) == IF k > 0 THEN all \cup {usual} ELSE {usual}
Cost(x, usual) == IF x = usual THEN 0 ELSE 1

\* the outcomes of one fetch issued at x under a timer of timeoutMs, with k
\* faults left; late: the timer is longer than the time the audit has left
fetchOutcomes(host, resource, timeoutMs, x, startedAt, k) ==
  LET f == Fixture(host, resource)
      usual == IF f.dur > timeoutMs THEN Thrown("abort", timeoutMs) ELSE f
      all == {Res(st, d) : st \in Statuses(resource),
                           d \in {dd \in FetchDurs : dd <= timeoutMs}}
               \cup {Thrown("abort", timeoutMs), Thrown("neterr", 10),
                     Thrown("err", 10)}
  IN  { [o EXCEPT !.faults = Cost(o, usual),
                  !.late = timeoutMs > timeLeft(x, startedAt)]
        : o \in Opt(usual, all, k) }

\* one attempt of tryHeadThenGet: HEAD, then GET when HEAD gave no response,
\* 405/501, or (fallbackOnNonOk) a response that is not ok
shouldFallback(h, fallbackOnNonOk) ==
  \/ h.kind # "res"
  \/ h.status \in {405, 501}
  \/ (fallbackOnNonOk /\ ~resOk(h))

\* a request of one attempt: its method, when it was issued and what it
\* settled with
Sending(method, at, o) ==
  [method |-> method, at |-> at, kind |-> o.kind, status |-> o.status]

headThenGetOnce(host, resource, timeoutMs, fallbackOnNonOk, x, startedAt, k) ==
  UNION { IF resOk(h) THEN {[h EXCEPT !.reqs = <<Sending("HEAD", x, h)>>]}
          ELSE IF shouldFallback(h, fallbackOnNonOk)
          THEN { [g EXCEPT !.dur = h.dur + g.dur, !.sent = 2,
                           !.faults = h.faults + g.faults,
                           !.late = h.late \/ g.late,
                           !.reqs = <<Sending("HEAD", x, h),
                                      Sending("GET", x + h.dur, g)>>]
                 : g \in fetchOutcomes(host, resource, timeoutMs, x + h.dur,
                                       startedAt, k - h.faults) }
          ELSE {[h EXCEPT !.reqs = <<Sending("HEAD", x, h)>>]}
        : h \in fetchOutcomes(host, resource, timeoutMs, x, startedAt, k) }

\* the callbacks handed to retry: one fetch under withTimeout(within(ms)),
\* the timer computed when the attempt starts (first attempt at t), and the
\* body of tryHeadThenGet under a timer fixed by its caller
FetchFn(host, resource, ms, t, startedAt) ==
  [kind |-> "fetch", host |-> host, resource |-> resource, ms |-> ms, t |-> t,
   startedAt |-> startedAt]
HeadThenGetFn(host, resource, timeoutMs, startedAt) ==
  [kind |-> "headThenGet", host |-> host, resource |-> resource, ms |-> timeoutMs,
   t |-> 0, startedAt |-> startedAt]

\* fn() called at x with k faults left
call(fn, x, k) ==
  IF fn.kind = "headThenGet"
  THEN headThenGetOnce(fn.host, fn.resource, fn.ms, TRUE, x, fn.startedAt, k)
  ELSE fetchOutcomes(fn.host,
                     IF fn.resource = "page" /\ x > fn.t THEN "pageAgain"
                     ELSE fn.resource,
                     within(fn.ms, x, fn.startedAt), x, fn.startedAt, k)

\* what one call of fn settled with
Settled(a) == [kind |-> a.kind, status |-> a.status]

\* retry that also goes on after an error that is not transient
RECURSIVE retryAnyError(_, _, _, _, _, _)
retryAnyError(fn, tries, baseDelay, t, i, k) ==
  UNION { IF i < tries - 1 /\ a.kind # "res"
          THEN UNION { { [r EXCEPT !.dur = a.dur + baseDelay * (i + 1) + j + r.dur,
                                   !.sent = a.sent + r.sent,
                                   !.faults = a.faults + r.faults,
                                   !.late = a.late \/ r.late,
                                   !.log = <<Settled(a)>> \o r.log]
                         : r \in retryAnyError(fn, tries, baseDelay,
                                               t + a.dur + baseDelay * (i + 1) + j,
                                               i + 1, k - a.faults) }
                       : j \in Jitters }
          ELSE {[a EXCEPT !.log = <<Settled(a)>>]}
        : a \in call(fn, t, k) }

\* retry(fn, {tries, baseDelay}): the runs of fn started at t as attempt i
\* with k faults left.  A run is the settled result with the total time
\* taken, the number of requests sent, the faults used and the log of what
\* each call of fn settled with.
RECURSIVE retry(_, _, _, _, _, _)
retry(fn, tries, baseDelay, t, i, k) ==
  UNION { IF i < tries - 1 /\ a.kind \in {"abort", "neterr"}
          THEN UNION { { [r EXCEPT !.dur = a.dur + baseDelay * (i + 1) + j + r.dur,
                                   !.sent = a.sent + r.sent,
                                   !.faults = a.faults + r.faults,
                                   !.late = a.late \/ r.late,
                                   !.log = <<Settled(a)>> \o r.log]
                         : r \in retry(fn, tries, baseDelay,
                                       t + a.dur + baseDelay * (i + 1) + j, i + 1,
                                       k - a.faults) }
                       : j \in Jitters }
          ELSE {[a EXCEPT !.log = <<Settled(a)>>]}
        : a \in call(fn, t, k) }

tryHeadThenGet(host, resource, timeoutMs, t, startedAt, k) ==
  retry(HeadThenGetFn(host, resource, timeoutMs, startedAt), 2, 400, t, 0, k)

\* retry(() => fetch(url, {signal: withTimeout(within(ms))}))
retryFetch(host, resource, ms, t, startedAt, k) ==
  retry(FetchFn(host, resource, ms, t, startedAt), 2, 400, t, 0, k)

(***************************************************************************)
(* Reports and responses.  A field JavaScript leaves out (undefined) is    *)
(* FALSE for the flags blocked, timeout and diag, NoPsi for speed and the  *)
(* string Undefined for title and metaDescription.                         *)
(***************************************************************************)
NoPsi == -1
Undefined == "<undefined>"
NoUrl == Url("", "", <<>>, 0, "", "")

Payload(blocked, timeout, url, finalUrl, fetchedStatus, timingMs, title, metaDescription, speed, checks, diag) ==
  [ok |-> TRUE, blocked |-> blocked, timeout |-> timeout, url |-> url,
   normalizedUrl |-> WithScheme(url), finalUrl |-> finalUrl,
   fetchedStatus |-> fetchedStatus, timingMs |-> timingMs, title |-> title,
   metaDescription |-> metaDescription, speed |-> speed, checks |-> checks,
   diag |-> diag]

NoPayload ==
  [ok |-> FALSE, blocked |-> FALSE, timeout |-> FALSE, url |-> NoUrl,
   normalizedUrl |-> NoUrl, finalUrl |-> NoUrl, fetchedStatus |-> -1,
   timingMs |-> 0, title |-> "", metaDescription |-> "", speed |-> NoPsi,
   checks |-> <<>>, diag |-> FALSE]

\* a copy that keeps _diag
keepDiag(out) == out

\* const { _diag, ...copy } = out
stripDiag(out) == [out EXCEPT !.diag = FALSE]

NoResp ==
  [status |-> 0, kind |-> "none", cached |-> FALSE, cacheAgeMs |-> 0,
   payload |-> NoPayload, diag |-> FALSE, share |-> FALSE, error |-> "",
   attempted |-> <<>>, at |-> 0]

\* NextResponse.json(body, {status}); `at` is the instant it is returned
json(status, kind, payload, diag, error) ==
  [status |-> status, kind |-> kind, cached |-> FALSE, cacheAgeMs |-> 0,
   payload |-> payload, diag |-> diag, share |-> FALSE, error |-> error,
   attempted |-> <<>>, at |-> 0]

(***************************************************************************)
(* The cache.                                                              *)
(***************************************************************************)
NoRec == [payload |-> NoPayload, createdAt |-> 0, expiresAt |-> 0]

\* cacheGet without the expiry test
cacheGetStale(cache, key, t) ==
  IF key \notin DOMAIN cache THEN NoRec ELSE cache[key]

\* cacheGet with Date.now() >= rec.expiresAt for the expiry test
cacheGetStrict(cache, key, t) ==
  IF key \notin DOMAIN cache THEN NoRec
  ELSE IF t >= cache[key].expiresAt THEN NoRec
  ELSE cache[key]

\* cacheGet: the record returned (NoRec for null) and the map afterwards
cacheGetRec(cache, key, t) ==
  IF key \notin DOMAIN cache THEN NoRec
  ELSE IF t > cache[key].expiresAt THEN NoRec
  ELSE cache[key]

cacheGetMap(cache, key, t) ==
  IF key \in DOMAIN cache /\ t > cache[key].expiresAt
  THEN [k \in DOMAIN cache \ {key} |-> cache[k]]
  ELSE cache

\* cacheSet that leaves an entry it finds
cacheSetOnce(cache, key, payload, t) ==
  IF key \in DOMAIN cache THEN cache
  ELSE [k \in DOMAIN cache \cup {key} |->
          IF k = key
          THEN [payload |-> payload, createdAt |-> t, expiresAt |-> t + CACHE_TTL_MS]
          ELSE cache[k]]

cacheSet(cache, key, payload, t) ==
  [k \in DOMAIN cache \cup {key} |->
     IF k = key
     THEN [payload |-> payload, createdAt |-> t, expiresAt |-> t + CACHE_TTL_MS]
     ELSE cache[k]]

(***************************************************************************)
(* Inbound requests.                                                       *)
(***************************************************************************)
Site(host) == Url("https", host, <<>>, 0, "", "")

\* the same page as Site("ok.test"), written another way
OkAgain == Url("", "OK.test", <<>>, 1, "q", "")

RawUrls ==
  { Site("ok.test"), OkAgain, Site("waf.test"), Site("slow.test"),
    Site("err.test"), Site("down.test"), Site("flaky.test") }

Request(method, param, url, nocache, snapshot) ==
  [method |-> method, param |-> param, url |-> url, nocache |-> nocache,
   snapshot |-> snapshot]

NoReq == Request("", "", NoUrl, FALSE, FALSE)

\* param: which of ?blob=, ?id=, url is given ("none": no parameter at all,
\* or a body without url; "array": a body whose url is an array holding the
\* one string url, which the regular expression, the template string,
\* new URL and fetch turn into that string)
Requests ==
  { Request("GET", p, NoUrl, FALSE, FALSE) : p \in {"blob", "id", "none"} }
    \cup { Request("POST", "none", NoUrl, FALSE, FALSE) }
    \cup { Request("POST", "array", Site("ok.test"), FALSE, FALSE) }
    \cup { Request("GET", "url", u, FALSE, FALSE) : u \in RawUrls }
    \cup { Request("GET", "url", Site("ok.test"), TRUE, FALSE) }
    \cup { Request("POST", "url", u, FALSE, FALSE) :
             u \in {OkAgain, Site("waf.test")} }
    \cup { Request("POST", "url", Site("ok.test"), TRUE, FALSE) }
    \cup { Request("POST", "url", u, FALSE, TRUE) :
             u \in {Site("ok.test"), Site("slow.test")} }

(***************************************************************************)
(* The locals of one runAudit call.                                        *)
(***************************************************************************)
NoAud ==
  [startedAt |-> 0, t0 |-> 0, budget |-> 0, checks |-> <<>>, sent |-> 0,
   status |-> 0, timingMs |-> 0, page |-> "", robotsListed |-> FALSE,
   cand |-> 0, found |-> FALSE, gz |-> FALSE, img |-> 0, huge |-> 0,
   brk |-> FALSE, psi |-> NoPsi, path |-> "", err |-> "", out |-> NoPayload,
   pending |-> NoResp, retryRes |-> "", last |-> "", faults |-> 0,
   departed |-> {}, starved |-> {}, lookups |-> <<>>,
   late |-> FALSE, sitemapRes |-> <<>>, lastOk |-> FALSE, refused |-> FALSE,
   gated |-> 0, pageLog |-> <<>>]

(***************************************************************************)
(* The landing page as the extractor sees it: what the regular             *)
(* expressions of runAudit find in the HTML and the response headers.      *)
(***************************************************************************)
Page(title, titleLen, metaDesc, metaDescLen, viewport, og, canonCount, canonFirst, robotsMeta, xRobots, imgTags, imgSrcs, altGood, modernFmt, lazyCount) ==
  [title |-> title, titleLen |-> titleLen, metaDesc |-> metaDesc,
   metaDescLen |-> metaDescLen, viewport |-> viewport,
   ogTitle |-> og[1], ogDesc |-> og[2], ogImage |-> og[3],
   canonCount |-> canonCount, canonFirst |-> canonFirst,
   robotsMeta |-> robotsMeta, googlebotMeta |-> "", bingbotMeta |-> "",
   xRobots |-> xRobots, imgTags |-> imgTags, imgSrcs |-> imgSrcs,
   altGood |-> altGood, modernFmt |-> modernFmt, lazyCount |-> lazyCount]

PageFeat(name) ==
  CASE name = "healthy" ->
         Page("Hello World Site", 16, "description-120", 120, TRUE,
              <<TRUE, TRUE, TRUE>>, 1, "match", "index,follow", "", 3, 3, 3, 1, 1)
    [] name = "noindex" ->
         Page("Hi", 2, "short", 5, TRUE, <<FALSE, TRUE, FALSE>>, 2, "match",
              "noindex", "", 2, 1, 1, 0, 0)
    [] OTHER ->
         Page("", 0, "", 0, FALSE, <<FALSE, FALSE, FALSE>>, 0, "none", "",
              "none", 0, 0, 0, 0, 0)

PageNames == {"healthy", "noindex", "bare"}


(***************************************************************************)
(* The finding classifier of the normal path.                              *)
(***************************************************************************)
\* loads: "yes", "no" or "unknown" (ogImageLoads true, false, undefined)
opengraphStatus(P, loads) ==
  IF P.ogTitle /\ (P.ogImage /\ loads # "no") THEN "pass"
  ELSE IF P.ogTitle \/ P.ogDesc \/ P.ogImage THEN "warn"
  ELSE "fail"

faviconStatus(loads) ==
  IF loads = "yes" THEN "pass" ELSE IF loads = "no" THEN "fail" ELSE "warn"

robotsStatus(robotsExists, robotsAllowsIndex) ==
  IF robotsExists THEN (IF robotsAllowsIndex THEN "pass" ELSE "fail") ELSE "warn"

wwwStatus(tested, good) == IF tested THEN (IF good THEN "pass" ELSE "warn") ELSE "warn"

httpStatus(status) == IF status < 400 THEN "pass" ELSE "fail"
ttfbStatus(timingMs) == IF timingMs < 1500 THEN "pass" ELSE "warn"

\* canonFirst: "match", "mismatch" (an href that resolves elsewhere) or
\* "none" (no tag, or a first tag without href)
canonicalStatus(P) ==
  LET canonicalHref == P.canonCount > 0 /\ P.canonFirst # "none"
      canonicalOk == P.canonFirst = "match"
      multipleCanon == P.canonCount > 1
  IN  IF canonicalHref
      THEN (IF canonicalOk /\ ~multipleCanon THEN "pass" ELSE "warn")
      ELSE "fail"

\* a robots value as its directives, the comma-separated items, each as the
\* words \b delimits in it
Directives(str) ==
  CASE str = "" -> <<>>
    [] str = "index,follow" -> << <<"index">>, <<"follow">> >>
    [] str = "nofollow" -> << <<"nofollow">> >>
    [] str = "noindex" -> << <<"noindex">> >>
    [] str = "none" -> << <<"none">> >>
    [] str = "noindex,nofollow" -> << <<"noindex">>, <<"nofollow">> >>
    [] str = "max-image-preview:none" -> << <<"max", "image", "preview", "none">> >>
    [] OTHER -> << <<str>> >>

\* /\bnoindex\b/.test(s) || /\bnone\b/.test(s)
hasNoindex(str) ==
  \E i \in DOMAIN Directives(str) :
    \E j \in DOMAIN Directives(str)[i] :
      Directives(str)[i][j] \in {"noindex", "none"}

noindexSources(P) ==
  {m \in {"robotsMeta", "googlebotMeta", "bingbotMeta", "xRobots"} :
     hasNoindex(P[m])}

robotsStrings(P) ==
  {m \in {"robotsMeta", "googlebotMeta", "bingbotMeta", "xRobots"} : P[m] # ""}

noindexStatus(P) == IF noindexSources(P) # {} THEN "fail" ELSE "pass"

metaRobotsStatus(P) ==
  IF robotsStrings(P) # {}
  THEN (IF noindexSources(P) # {} THEN "warn" ELSE "pass")
  ELSE "pass"

metaDescriptionStatus(P) ==
  IF P.metaDesc # ""
  THEN (IF P.metaDescLen >= 50 /\ P.metaDescLen <= 160 THEN "pass" ELSE "warn")
  ELSE "fail"

titleLengthStatus(P) ==
  IF P.titleLen # 0
  THEN (IF P.titleLen >= 15 /\ P.titleLen <= 60 THEN "pass" ELSE "warn")
  ELSE "fail"

viewportStatus(P) == IF P.viewport THEN "pass" ELSE "fail"

\* altOk = alts.length ? good / alts.length : 1, compared with 0.9 and 0.6
imgAltStatus(P) ==
  IF P.imgTags = 0 \/ 10 * P.altGood >= 9 * P.imgTags THEN "pass"
  ELSE IF 10 * P.altGood >= 6 * P.imgTags THEN "warn"
  ELSE "fail"

imgModernStatus(P) == IF P.modernFmt > 0 THEN "pass" ELSE "warn"
imgSizeStatus(huge) == IF huge = 0 THEN "pass" ELSE IF huge <= 2 THEN "warn" ELSE "fail"
imgLazyStatus(P) == IF P.lazyCount > 0 THEN "pass" ELSE "warn"
psiStatus(psi) == IF psi >= PSI_PASS THEN "pass" ELSE "warn"

\* the checks pushed between the www probe and the image probes
PureChecks(P, status, timingMs) ==
  << Chk("http", httpStatus(status)),
     Chk("ttfb", ttfbStatus(timingMs)),
     Chk("canonical", canonicalStatus(P)),
     Chk("noindex", noindexStatus(P)),
     Chk("meta-robots", metaRobotsStatus(P)),
     Chk("meta-description", metaDescriptionStatus(P)),
     Chk("title-length", titleLengthStatus(P)),
     Chk("viewport", viewportStatus(P)) >>

ImageChecks(P, huge) ==
  << Chk("img-alt", imgAltStatus(P)),
     Chk("img-modern", imgModernStatus(P)),
     Chk("img-size", imgSizeStatus(huge)),
     Chk("img-lazy", imgLazyStatus(P)) >>

(***************************************************************************)
(* The initial state and the scheduling of continuations.                  *)
(***************************************************************************)
\* process.env (DEBUG_AUDIT, PSI_API_KEY, BLOB_READ_WRITE_TOKEN), the requests
\* that may arrive and the faults of the remote world in one audit
Envs(requests, maxServed, maxFaults) ==
  { [debug |-> d, psiKey |-> d, blobToken |-> ~d, requests |-> requests,
     maxServed |-> maxServed, maxFaults |-> maxFaults]
    : d \in BOOLEAN }

\* no pure function is under evaluation
NoUnit == [fn |-> "", arg |-> <<>>, out |-> <<>>, done |-> FALSE]

InitWith(envs) ==
  /\ now = 0
  /\ CACHE = [k \in {} |-> NoRec]
  /\ req = [s \in Slots |-> NoReq]
  /\ pc = [s \in Slots |-> "idle"]
  /\ wake = [s \in Slots |-> 0]
  /\ aud = [s \in Slots |-> NoAud]
  /\ resp = [s \in Slots |-> NoResp]
  /\ served = 0
  /\ env \in envs
  /\ unit = NoUnit

Init == InitWith(Envs(Requests, MaxRequests, 0))

\* one GET ?url=...&nocache=1
AuditRequests ==
  { Request("GET", "url", Site(h), TRUE, FALSE)
    : h \in {"ok.test", "waf.test", "slow.test", "flaky.test", "listed.test"} }

InitAudit ==
  InitWith({ e \in Envs(AuditRequests, 1, MaxFaults) : e.debug })

Active(s) == pc[s] \notin {"idle", "done"}

\* the continuation of s is the next one to run
Runnable(s) == Active(s) /\ \A r \in Slots : Active(r) => wake[s] <= wake[r]

Host(s) == LowerCase(req[s].url.host)

\* the candidates of the sitemap sweep: four common paths and the URLs
\* robots.txt lists
Candidates(a) == 4 + (IF a.robotsListed THEN 1 ELSE 0)

SweepGoes(a, t, floor) ==
  ~a.found /\ a.cand < Candidates(a) /\ ~(timeLeft(t, a.startedAt) < floor)

\* the image loop goes on to imgSrcs[a.img]
ImageGoes(a) ==
  ~a.brk /\ a.img < Min(IMAGE_HEADS, PageFeat(a.page).imgSrcs)

\* the probe the continuation of s is about to run, by the id of its check
\* ("page" for the main page fetch, the blocked retry and the body read)
Probe(s) ==
  CASE pc[s] \in {"page", "blockedRetry", "body"} -> "page"
    [] pc[s] = "og" -> "opengraph"
    [] pc[s] \in {"favicon", "tFavicon"} -> "favicon"
    [] pc[s] \in {"robots", "bRobots", "tRobots"} -> "robots"
    [] pc[s] \in {"sitemap", "sample"} -> "sitemap"
    [] pc[s] = "www" -> "www-canonical"
    [] pc[s] = "img" -> IF ImageGoes(aud[s]) THEN "img-size" ELSE "psi"
    [] pc[s] = "bSitemap" ->
         IF SweepGoes(aud[s], wake[s], 300) THEN "sitemap" ELSE "favicon"
    [] pc[s] = "tSitemap" ->
         IF SweepGoes(aud[s], wake[s], 300) THEN "sitemap" ELSE "psi"
    [] OTHER -> ""

\* the probe of s sent requests that ended, after d, in an abort with none
\* of the time budget left
AbortedAtDeadline(s, a, d) ==
  /\ a.sent > aud[s].sent
  /\ a.last = "abort"
  /\ timeLeft(wake[s] + d, a.startedAt) = 0

\* the continuations that run a probe guarded by spend()
GatedSteps == {"og", "favicon", "sample", "www", "img"}

\* the continuation of s ran at wake[s], left the locals a and suspended at
\* p on an await that takes d; a probe in which the remote world departed
\* from its usual answer is noted in `departed`, one that the deadline cut
\* (skipped for lack of time, or aborted at the deadline) in `starved`
\* `gated` counts the requests sent by the probes that spend() guards
Step(s, a, p, d) ==
  /\ now' = wake[s]
  /\ aud' = [aud EXCEPT ![s] =
               [a EXCEPT !.gated = IF pc[s] \in GatedSteps
                                   THEN @ + (a.sent - aud[s].sent) ELSE @,
                         !.departed = IF a.faults > aud[s].faults
                                      THEN @ \cup {Probe(s)} ELSE @,
                         !.starved = IF AbortedAtDeadline(s, a, d)
                                     THEN @ \cup {Probe(s)} ELSE @]]
  /\ pc' = [pc EXCEPT ![s] = p]
  /\ wake' = [wake EXCEPT ![s] = wake[s] + d]
  /\ UNCHANGED <<CACHE, req, resp, served, env, unit>>

\* the handler of s returned the response r at wake[s]
\* a handler that builds its response and does not return it
ReplyNever(s, r) ==
  /\ now' = wake[s]
  /\ resp' = [resp EXCEPT ![s] = [r EXCEPT !.at = wake[s]]]
  /\ UNCHANGED <<req, pc, wake, aud, served, env, unit>>

Reply(s, r) ==
  /\ now' = wake[s]
  /\ resp' = [resp EXCEPT ![s] = [r EXCEPT !.at = wake[s]]]
  /\ pc' = [pc EXCEPT ![s] = "done"]
  /\ UNCHANGED <<req, wake, aud, served, env, unit>>

(***************************************************************************)
(* The HTTP surface.                                                       *)
(***************************************************************************)
Arrive(s) ==
  /\ pc[s] = "idle"
  /\ \A r \in Slots : r < s => pc[r] # "idle"
  /\ served < env.maxServed
  /\ \E r \in env.requests : req' = [req EXCEPT ![s] = r]
  /\ pc' = [pc EXCEPT ![s] = "start"]
  /\ wake' = [wake EXCEPT ![s] = now]
  /\ served' = served + 1
  /\ UNCHANGED <<now, CACHE, aud, resp, env, unit>>

\* the lookup guard without the snapshot test
ReadsUnlessNocache(r) == ~r.nocache

\* whether the handler looks the key up in the cache
ReadsCache(r) == ~r.nocache /\ ~r.snapshot

\* GET and POST up to the call of runAudit
Start(s) ==
  /\ pc[s] = "start"
  /\ Runnable(s)
  /\ LET r == req[s]
         t == wake[s]
         key == normalizeKey(r.url)
         hit == cacheGetRec(CACHE, key, t)
     IN  IF r.method = "GET" /\ r.param \in {"blob", "id"}
         THEN Step(s, aud[s], IF r.param = "blob" THEN "blob" ELSE "id1", 0)
         ELSE IF r.param = "none"
         THEN /\ Reply(s, IF r.method = "GET"
                          THEN json(200, "ping", NoPayload, FALSE, "")
                          ELSE json(400, "error", NoPayload, FALSE, "Invalid URL"))
              /\ UNCHANGED CACHE
         ELSE IF ReadsCache(r)
         THEN /\ CACHE' = cacheGetMap(CACHE, key, t)
              /\ IF hit # NoRec
                 THEN Reply(s, [json(200, "report", hit.payload, FALSE, "")
                                  EXCEPT !.cached = TRUE,
                                         !.cacheAgeMs = t - hit.createdAt])
                 ELSE /\ now' = t
                      /\ aud' = [aud EXCEPT ![s] =
                                   [NoAud EXCEPT !.startedAt = t, !.t0 = t,
                                                 !.budget = MAX_SUBREQUESTS]]
                      /\ pc' = [pc EXCEPT ![s] = "page"]
                      /\ UNCHANGED <<req, wake, resp, served, env, unit>>
         ELSE Step(s, [NoAud EXCEPT !.startedAt = t, !.t0 = t,
                                    !.budget = MAX_SUBREQUESTS], "page", 0)

\* loadSnapshotByPath: the blob is there, the store answers not ok or with
\* a body that is no JSON, or fetch throws
SnapshotLoads == {"ok", "notfound", "badjson", "throw"}

\* the body of a snapshot with fromSnapshot: true
Snapshot200 == json(200, "snapshot", NoPayload, FALSE, "")
Snapshot404(attempted) ==
  [json(404, "error", NoPayload, FALSE, "Snapshot not found")
     EXCEPT !.attempted = attempted]
\* neither branch is inside a try block: the platform answers for the handler
Unhandled == json(500, "error", NoPayload, FALSE, "unhandled")

\* the URL loadSnapshotByPath asks for
BlobUrl(pathOrUrl) == <<"BLOB_PUBLIC_BASE", pathOrUrl>>

\* one call made by s, with outcome o
loadSnapshotByPath(s, pathOrUrl, o) ==
  [aud[s] EXCEPT !.sent = @ + 1,
                 !.lookups = Append(@, [path |-> pathOrUrl, outcome |-> o])]

\* GET ?blob=
Blob(s) ==
  /\ pc[s] = "blob"
  /\ Runnable(s)
  /\ \E o \in SnapshotLoads :
       Step(s, [loadSnapshotByPath(s, "blob", o) EXCEPT
                  !.pending = IF o = "ok" THEN Snapshot200
                              ELSE IF o = "throw" THEN Unhandled
                              ELSE Snapshot404(<<BlobUrl("blob")>>)],
            "respond", 10)

\* GET ?id= that asks for the bare <id> first
Id1BareFirst(s) ==
  /\ pc[s] = "id1"
  /\ Runnable(s)
  /\ \E o \in SnapshotLoads :
       Step(s, [loadSnapshotByPath(s, "id", o) EXCEPT
                  !.pending = IF o = "throw" THEN Unhandled ELSE Snapshot200],
            IF o \in {"ok", "throw"} THEN "respond" ELSE "id2", 10)

\* GET ?id=, first lookup: <id>.json
Id1(s) ==
  /\ pc[s] = "id1"
  /\ Runnable(s)
  /\ \E o \in SnapshotLoads :
       Step(s, [loadSnapshotByPath(s, "id.json", o) EXCEPT
                  !.pending = IF o = "throw" THEN Unhandled ELSE Snapshot200],
            IF o \in {"ok", "throw"} THEN "respond" ELSE "id2", 10)

\* GET ?id=, second lookup: <id>
Id2(s) ==
  /\ pc[s] = "id2"
  /\ Runnable(s)
  /\ \E o \in SnapshotLoads :
       Step(s, [loadSnapshotByPath(s, "id", o) EXCEPT
                  !.pending = IF o = "ok" THEN Snapshot200
                              ELSE IF o = "throw" THEN Unhandled
                              ELSE Snapshot404(<<BlobUrl("id.json"), BlobUrl("id")>>)],
            "respond", 10)

\* the guard of cacheSet without the blocked and timeout tests
CacheableUnlessSnapshot(copy, r) == ~r.snapshot

\* if (!out.blocked && !out.timeout [&& !wantSnapshot]) cacheSet(key, copy)
Cacheable(copy, r) == ~copy.blocked /\ ~copy.timeout /\ ~r.snapshot

\* the handler after runAudit returned (aud.out) or threw (aud.err)
Ret(s) ==
  /\ pc[s] = "ret"
  /\ Runnable(s)
  /\ LET r == req[s]
         a == aud[s]
         t == wake[s]
         copy == stripDiag(a.out)
         store == Cacheable(copy, r)
     IN  IF a.err # ""
         THEN Reply(s, json(500, "error", NoPayload, FALSE, a.err)) /\ UNCHANGED CACHE
         ELSE /\ CACHE' = IF store THEN cacheSet(CACHE, normalizeKey(r.url), copy, t)
                          ELSE CACHE
              /\ IF r.snapshot
                 THEN /\ now' = t
                      /\ pc' = [pc EXCEPT ![s] = "snapshot"]
                      /\ UNCHANGED <<req, wake, aud, resp, served, env, unit>>
                 ELSE Reply(s, json(200, "report", copy, a.out.diag, ""))

\* POST snapshot mode: saveSnapshot, then the share fields
Snapshot(s) ==
  /\ pc[s] = "snapshot"
  /\ Runnable(s)
  /\ LET a == aud[s]
         shared == [json(200, "report", stripDiag(a.out), FALSE, "")
                      EXCEPT !.share = TRUE]
         failed == json(500, "error", NoPayload, FALSE, "saveSnapshot")
     IN  IF ~env.blobToken
         THEN Step(s, [a EXCEPT !.pending = failed], "respond", 0)
         ELSE \E o \in {"ok", "throw"} :
                Step(s, [a EXCEPT !.sent = @ + 1,
                                  !.pending = IF o = "ok" THEN shared ELSE failed],
                     "respond", 10)

Respond(s) ==
  /\ pc[s] = "respond"
  /\ Runnable(s)
  /\ Reply(s, aud[s].pending)
  /\ UNCHANGED CACHE

\* the response is sent; the slot is free again
Close(s) ==
  /\ pc[s] = "done"
  /\ pc' = [pc EXCEPT ![s] = "idle"]
  /\ req' = [req EXCEPT ![s] = NoReq]
  /\ aud' = [aud EXCEPT ![s] = NoAud]
  /\ resp' = [resp EXCEPT ![s] = NoResp]
  /\ UNCHANGED <<now, CACHE, wake, served, env, unit>>

\* nothing in flight: time passes until a cache entry is about to expire, or
\* has just expired
Idle ==
  /\ \A s \in Slots : ~Active(s)
  /\ \E k \in DOMAIN CACHE : \E d \in {0, 1} :
       /\ now' = CACHE[k].expiresAt + d
       /\ now' > now
       /\ now' <= MaxTime
  /\ UNCHANGED <<CACHE, req, pc, wake, aud, resp, served, env, unit>>

(***************************************************************************)
(* runAudit: the main page fetch and the blocked retry.                    *)
(***************************************************************************)
\* the faults the remote world has left in the audit a
Left(a) == env.maxFaults - a.faults

\* the requests of a probe settled as `run`
Sent(a, run) ==
  [a EXCEPT !.sent = @ + run.sent, !.faults = @ + run.faults, !.last = run.kind,
            !.late = @ \/ run.late, !.lastOk = isOk(run)]
Fault(a, n) == [a EXCEPT !.faults = @ + n]
Push(a, c) == [a EXCEPT !.checks = Append(@, c)]
PushAll(a, cs) == [a EXCEPT !.checks = @ \o cs]

\* a probe that found too little time left to run (c) is noted in `starved`,
\* by the id of its check
Starve(a, id, c) == IF c THEN [a EXCEPT !.starved = @ \cup {id}] ELSE a

\* runAudit ends: it returns the payload, or throws
Return(a, payload) == [a EXCEPT !.out = payload]
Throw(a, e) == [a EXCEPT !.err = e]

\* MAIN PAGE FETCH: retry(fetch) under within(TIME_PAGE_MS); an AbortError
\* goes to timeoutPartial, any other error is thrown to the handler
MainPageFetch(s) ==
  /\ pc[s] = "page"
  /\ Runnable(s)
  /\ LET a == aud[s]
     IN  \E run \in retryFetch(Host(s), "page", TIME_PAGE_MS, wake[s], a.startedAt,
                               Left(a)) :
           IF run.kind = "res"
           THEN Step(s, [Sent(a, run) EXCEPT !.status = run.status],
                     IF run.status \in BLOCK_CODES THEN "blockedRetry" ELSE "body",
                     run.dur)
           ELSE IF run.kind = "abort"
           THEN Step(s, [Sent(a, run) EXCEPT !.path = "timeout", !.pageLog = run.log],
                     "tFavicon", run.dur)
           ELSE Step(s, Throw(Sent(a, run), run.kind), "ret", run.dur)

\* Blocked handling: one re-fetch with BROWSER_HEADERS; its failure keeps the
\* first response
BlockedRetry(s) ==
  /\ pc[s] = "blockedRetry"
  /\ Runnable(s)
  /\ LET a == aud[s]
     IN  \E o \in fetchOutcomes(Host(s), "page2", within(6000, wake[s], a.startedAt),
                                wake[s], a.startedAt, Left(a)) :
           LET status == IF o.kind = "res" THEN o.status ELSE a.status
           IN  IF status \in BLOCK_CODES
               THEN Step(s, [Sent(a, o) EXCEPT !.status = status, !.path = "blocked",
                                               !.retryRes = o.kind],
                         "bRobots", o.dur)
               ELSE Step(s, [Sent(a, o) EXCEPT !.status = status, !.retryRes = o.kind],
                         "body", o.dur)

(***************************************************************************)
(* The probes the BLOCKED and TIMEOUT paths share in shape.                *)
(***************************************************************************)
\* what robots.txt says: it allows, disallows / for *, or allows and lists
\* a sitemap URL that is none of the common paths
RobotsBodies == {"allow", "disallow", "listed"}
UsualRobots(host) ==
  IF host \in {"ok.test", "listed.test"} THEN "listed" ELSE "allow"

\* reading a response body: it arrives, or the read throws
BodyReads == {"ok", "throw"}

\* the body of an answer `run` and its read: inputs only when there is a body
Bodies(run, usual, all, k) == IF resOk(run) THEN Opt(usual, all, k) ELSE {usual}

\* best-effort robots.txt of the degraded paths: one fetch whose timer also
\* covers the body read; every failure is the check "warn"
DegradedRobots(s, first, next) ==
  LET a0 == aud[s]
      a == IF first = <<>> THEN a0 ELSE PushAll(a0, first)
      usual == UsualRobots(Host(s))
  IN  \E o \in fetchOutcomes(Host(s), "robots",
                             within(TIME_SMALL_MS, wake[s], a.startedAt),
                             wake[s], a.startedAt, Left(a)) :
      \E body \in Bodies(o, usual, RobotsBodies, Left(a) - o.faults) :
      \E read \in Bodies(o, "ok", BodyReads,
                         Left(a) - o.faults - Cost(body, usual)) :
        LET got == resOk(o) /\ read = "ok"
            status == IF got /\ body = "disallow" THEN "fail" ELSE "warn"
        IN  Step(s, [Push(Fault(Sent(a, o), Cost(body, usual) + Cost(read, "ok")),
                          Chk("robots", status))
                       EXCEPT !.robotsListed = got /\ body = "listed"],
                 next, o.dur)

\* one candidate of the HEAD sweep: the common paths, then the listed URL
DegradedSitemap(s) ==
  LET a == aud[s]
  IN  /\ SweepGoes(a, wake[s], 300)
      /\ \E run \in tryHeadThenGet(Host(s),
                                   IF a.cand = 4 THEN "sitemapListed" ELSE "sitemap",
                                   within(TIME_SMALL_MS, wake[s], a.startedAt),
                                   wake[s], a.startedAt, Left(a)) :
           Step(s, [Sent(a, run) EXCEPT !.cand = @ + 1, !.found = isOk(run)],
                pc[s], run.dur)

degradedSitemapCheck(a) == Chk("sitemap", IF a.found THEN "warn" ELSE "fail")

\* the sweep ended: by a sitemap found, by the end of the candidates, or by
\* the break on too little time left
sweepEnds(a) == Starve(a, "sitemap", ~a.found /\ a.cand < Candidates(a))

\* /favicon.ico of the degraded paths
degradedFaviconRuns(s, t) ==
  tryHeadThenGet(Host(s), "favicon", within(TIME_ASSET_MS, t, aud[s].startedAt), t,
                 aud[s].startedAt, Left(aud[s]))

degradedFaviconCheck(run) == Chk("favicon", IF isOk(run) THEN "pass" ELSE "warn")

(***************************************************************************)
(* The BLOCKED path.                                                       *)
(***************************************************************************)
BlockedRobots(s) ==
  /\ pc[s] = "bRobots"
  /\ Runnable(s)
  /\ DegradedRobots(s, <<Chk("blocked", "fail")>>, "bSitemap")

BlockedSitemap(s) ==
  /\ pc[s] = "bSitemap"
  /\ Runnable(s)
  /\ DegradedSitemap(s)

\* the blocked payload without the status of the response
blockedPayloadNoStatus(r, a, now1) ==
  Payload(TRUE, FALSE, r.url, ParseUrl(WithScheme(r.url)), 0, now1 - a.t0,
          "", "", NoPsi, a.checks, env.debug)

\* the blocked payload without the flag blocked
blockedPayloadUnflagged(r, a, now1) ==
  Payload(FALSE, FALSE, r.url, ParseUrl(WithScheme(r.url)), a.status, now1 - a.t0,
          "", "", NoPsi, a.checks, env.debug)

blockedPayload(r, a, now1) ==
  Payload(TRUE, FALSE, r.url, ParseUrl(WithScheme(r.url)), a.status, now1 - a.t0,
          "", "", NoPsi, a.checks, env.debug)

\* after the sweep: the sitemap check, the favicon probe, the placeholders
\* and the blocked payload
BlockedFavicon(s) ==
  /\ pc[s] = "bSitemap"
  /\ Runnable(s)
  /\ ~SweepGoes(aud[s], wake[s], 300)
  /\ \E run \in degradedFaviconRuns(s, wake[s]) :
       LET a == PushAll(Sent(sweepEnds(aud[s]), run),
                        <<degradedSitemapCheck(aud[s]), degradedFaviconCheck(run)>>
                          \o Placeholders)
       IN  Step(s, Return(a, blockedPayload(req[s], a, wake[s] + run.dur)),
                "ret", run.dur)

(***************************************************************************)
(* The TIMEOUT path: timeoutPartial.                                       *)
(***************************************************************************)
TimeoutFavicon(s) ==
  /\ pc[s] = "tFavicon"
  /\ Runnable(s)
  /\ \E run \in degradedFaviconRuns(s, wake[s]) :
       Step(s, PushAll(Sent(aud[s], run),
                       <<Chk("timeout", "warn"), degradedFaviconCheck(run)>>),
            "tRobots", run.dur)

TimeoutRobots(s) ==
  /\ pc[s] = "tRobots"
  /\ Runnable(s)
  /\ DegradedRobots(s, <<>>, "tSitemap")

TimeoutSitemap(s) ==
  /\ pc[s] = "tSitemap"
  /\ Runnable(s)
  /\ DegradedSitemap(s)

\* the PageSpeed request: the score read from the answer, NoPsi when the
\* answer is not ok, is no JSON or holds no number
PsiScores == {NoPsi, PSI_PASS - 1, PSI_PASS}
UsualPsi == PSI_PASS

psiRuns(host, timeoutMs, x, startedAt, k) ==
  UNION { IF resOk(o)
          THEN { [o EXCEPT !.status = sc, !.faults = @ + Cost(sc, UsualPsi)]
                 : sc \in Opt(UsualPsi, PsiScores, k - o.faults) }
          ELSE { [o EXCEPT !.status = NoPsi] }
        : o \in fetchOutcomes(host, "psi", timeoutMs, x, startedAt, k) }

\* the psi check pushed whether or not a score was read
psiChecksAlways(psi) == <<Chk("psi", psiStatus(psi))>>

psiChecks(psi) == IF psi # NoPsi THEN <<Chk("psi", psiStatus(psi))>> ELSE <<>>

\* `title` and `metaDesc` are const bindings of runAudit that are declared
\* after the main page fetch: timeoutPartial reads them before they are
\* initialized.  ES2015 semantics makes the read throw a ReferenceError; a
\* build that lowers const to var reads undefined.
UninitializedRead == {"ReferenceError", "undefined"}

\* the timeout payload with 408 for fetchedStatus
timeoutPayloadAs408(r, a, psi) ==
  Payload(FALSE, TRUE, r.url, WithScheme(r.url), 408, OVERALL_BUDGET_MS,
          Undefined, Undefined, psi, a.checks, env.debug)

timeoutPayload(r, a, psi) ==
  Payload(FALSE, TRUE, r.url, WithScheme(r.url), 0, OVERALL_BUDGET_MS,
          Undefined, Undefined, psi, a.checks, env.debug)

\* after the sweep: the sitemap check, the placeholders, PSI when more than
\* 2 s are left, and the timeout payload
TimeoutPsi(s) ==
  /\ pc[s] = "tSitemap"
  /\ Runnable(s)
  /\ ~SweepGoes(aud[s], wake[s], 300)
  /\ LET inTime == timeLeft(wake[s], aud[s].startedAt) > 2000
         a0 == Starve(PushAll(sweepEnds(aud[s]),
                              <<degradedSitemapCheck(aud[s])>> \o Placeholders),
                      "psi", ~inTime)
         tm == within(TIME_PSI_MS, wake[s], a0.startedAt)
         runs == IF inTime
                 THEN psiRuns(Host(s), tm, wake[s], a0.startedAt, Left(a0))
                 ELSE { [Skipped EXCEPT !.status = NoPsi] }
     IN  \E run \in runs : \E tdz \in UninitializedRead :
           LET a == [PushAll(Sent(a0, run), psiChecks(run.status))
                       EXCEPT !.psi = run.status]
           IN  Step(s, IF tdz = "ReferenceError" THEN Throw(a, tdz)
                       ELSE Return(a, timeoutPayload(req[s], a, run.status)),
                    "ret", run.dur)

(***************************************************************************)
(* The normal path.                                                        *)
(***************************************************************************)
\* spend that takes twice what is asked
SpendTwice(a, n) == [a EXCEPT !.budget = spendLeft(@, 2 * n)]

\* spend(n); `refused` notes that some spend of the audit returned false
Spend(a, n) ==
  [a EXCEPT !.budget = spendLeft(@, n), !.refused = @ \/ ~spendOk(a.budget, n)]

\* the page a host usually serves
UsualPage(host) == IF host = "ok.test" THEN "healthy" ELSE "bare"

\* const html = await pageRes.text(); timingMs; the extractor
ReadBody(s) ==
  /\ pc[s] = "body"
  /\ Runnable(s)
  /\ LET a == aud[s]
         usual == UsualPage(Host(s))
     IN  \E read \in Opt("ok", BodyReads, Left(a)) :
         \E page \in Opt(usual, PageNames, Left(a) - Cost(read, "ok")) :
           IF read = "throw"
           THEN /\ page = usual
                /\ Step(s, Throw(Fault(a, 1), "err"), "ret", 0)
           ELSE Step(s, [Fault(a, Cost(page, usual))
                           EXCEPT !.path = "normal", !.page = page,
                                  !.timingMs = wake[s] - a.t0],
                     "og", 0)

\* Open Graph: ogImage && spend() && timeLeft() > 300
OpenGraph(s) ==
  /\ pc[s] = "og"
  /\ Runnable(s)
  /\ LET a0 == aud[s]
         P == PageFeat(a0.page)
         inTime == timeLeft(wake[s], a0.startedAt) > 300
         a == Starve(IF P.ogImage THEN Spend(a0, 1) ELSE a0, "opengraph",
                     P.ogImage /\ ~inTime)
         go == P.ogImage /\ spendOk(a0.budget, 1) /\ inTime
         runs == IF go
                 THEN fetchOutcomes(Host(s), "ogimage",
                                    within(TIME_ASSET_MS, wake[s], a0.startedAt),
                                    wake[s], a0.startedAt, Left(a0))
                 ELSE {Skipped}
     IN  \E o \in runs :
           LET loads == IF o.kind = "skip" THEN "unknown"
                        ELSE IF resOk(o) THEN "yes" ELSE "no"
           IN  Step(s, Push(Sent(a, o), Chk("opengraph", opengraphStatus(P, loads))),
                    "favicon", o.dur)

\* Favicon: faviconUrl && spend() && timeLeft() > 250
Favicon(s) ==
  /\ pc[s] = "favicon"
  /\ Runnable(s)
  /\ LET a0 == aud[s]
         inTime == timeLeft(wake[s], a0.startedAt) > 250
         a == Starve(Spend(a0, 1), "favicon", ~inTime)
         go == spendOk(a0.budget, 1) /\ inTime
         runs == IF go
                 THEN tryHeadThenGet(Host(s), "favicon",
                                     within(TIME_ASSET_MS, wake[s], a0.startedAt),
                                     wake[s], a0.startedAt, Left(a0))
                 ELSE {Skipped}
     IN  \E run \in runs :
           LET loads == IF run.kind = "skip" THEN "unknown"
                        ELSE IF isOk(run) THEN "yes" ELSE "no"
           IN  Step(s, Push(Sent(a, run), Chk("favicon", faviconStatus(loads))),
                    "robots", run.dur)

\* robots.txt: if (timeLeft() > 250) retry(fetch), then the body read
Robots(s) ==
  /\ pc[s] = "robots"
  /\ Runnable(s)
  /\ LET inTime == timeLeft(wake[s], aud[s].startedAt) > 250
         a == Starve(aud[s], "robots", ~inTime)
         usual == UsualRobots(Host(s))
         runs == IF inTime
                 THEN retryFetch(Host(s), "robots", TIME_SMALL_MS, wake[s], a.startedAt,
                                 Left(a))
                 ELSE {Skipped}
     IN  \E run \in runs :
         \E body \in Bodies(run, usual, RobotsBodies, Left(a) - run.faults) :
         \E read \in Bodies(run, "ok", BodyReads,
                            Left(a) - run.faults - Cost(body, usual)) :
           LET robotsExists == resOk(run)
               parsed == robotsExists /\ read = "ok"
               robotsAllowsIndex == ~(parsed /\ body = "disallow")
           IN  Step(s, [Push(Fault(Sent(a, run), Cost(body, usual) + Cost(read, "ok")),
                             Chk("robots", robotsStatus(robotsExists, robotsAllowsIndex)))
                          EXCEPT !.robotsListed = parsed /\ body = "listed"],
                    "sitemap", run.dur)

\* what the answer of a sitemap candidate shows of its encoding: how the
\* final URL ends and the content-type header
SitemapAnswer(final, ct) == [final |-> final, ct |-> ct]
PlainSitemap == SitemapAnswer(".xml", "application/xml")
SitemapAnswers ==
  { SitemapAnswer(f, ct) : f \in {".xml", ".gz", ".gz?v=2", ".gzip"},
                           ct \in {"application/xml", "application/gzip",
                                   "application/x-gzip"} }

\* a sitemap that is taken for gzipped only by its URL
sitemapGzippedByUrl(r) == r.final \in {".gz", ".gz?v=2"}

\* /\.gz(\?|#|$)/i.test(final) || ct.includes("application/gzip") ||
\* ct.includes("application/x-gzip")
sitemapGzipped(r) ==
  \/ r.final \in {".gz", ".gz?v=2"}
  \/ r.ct = "application/gzip"
  \/ r.ct = "application/x-gzip"

\* one candidate of the sitemap discovery, the listed URL first: a GET, no
\* retry; the sitemap found may be gzipped
SitemapFind(s) ==
  /\ pc[s] = "sitemap"
  /\ Runnable(s)
  /\ SweepGoes(aud[s], wake[s], 250)
  /\ LET a == aud[s]
     IN  \E o \in fetchOutcomes(Host(s),
                                IF a.robotsListed /\ a.cand = 0 THEN "sitemapListed"
                                ELSE "sitemap",
                                within(TIME_SMALL_MS, wake[s], a.startedAt),
                                wake[s], a.startedAt, Left(a)) :
         \E r \in Bodies(o, PlainSitemap, SitemapAnswers, Left(a) - o.faults) :
           Step(s, [Fault(Sent(a, o), Cost(r, PlainSitemap))
                      EXCEPT !.cand = @ + 1, !.found = resOk(o),
                             !.gz = resOk(o) /\ sitemapGzipped(r),
                             !.sitemapRes = IF resOk(o) THEN <<r>> ELSE @],
                "sitemap", o.dur)

\* after the discovery: no sitemap is "fail", a gzipped one "warn"; else the
\* XML is fetched (retry) and read, and may hold a <loc>
SitemapGet(s) ==
  /\ pc[s] = "sitemap"
  /\ Runnable(s)
  /\ ~SweepGoes(aud[s], wake[s], 250)
  /\ LET a == Starve(aud[s], "sitemap",
                     ~aud[s].found /\ aud[s].cand < Candidates(aud[s]))
     IN  IF ~a.found
         THEN Step(s, Push(a, Chk("sitemap", "fail")), "www", 0)
         ELSE IF a.gz
         THEN Step(s, Push(a, Chk("sitemap", "warn")), "www", 0)
         ELSE \E run \in retryFetch(Host(s), "sitemapxml", TIME_PAGE_MS, wake[s],
                                    a.startedAt, Left(a)) :
              \E read \in Bodies(run, "ok", BodyReads, Left(a) - run.faults) :
              \E sitemapHasUrls \in Bodies(run, TRUE, BOOLEAN,
                                           Left(a) - run.faults - Cost(read, "ok")) :
                LET a1 == Fault(Sent(a, run),
                                Cost(read, "ok") + Cost(sitemapHasUrls, TRUE))
                IN  IF resOk(run) /\ read = "ok" /\ sitemapHasUrls
                    THEN Step(s, a1, "sample", run.dur)
                    ELSE Step(s, Push(a1, Chk("sitemap", "warn")), "www", run.dur)

\* the sample of the first <loc>: !spend() || timeLeft() < 200 gives false
SitemapSample(s) ==
  /\ pc[s] = "sample"
  /\ Runnable(s)
  /\ LET a0 == aud[s]
         inTime == ~(timeLeft(wake[s], a0.startedAt) < 200)
         a == Starve(Spend(a0, 1), "sitemap", ~inTime)
         go == spendOk(a0.budget, 1) /\ inTime
         runs == IF go
                 THEN tryHeadThenGet(Host(s), "sample",
                                     within(TIME_ASSET_MS, wake[s], a0.startedAt),
                                     wake[s], a0.startedAt, Left(a0))
                 ELSE {Skipped}
     IN  \E run \in runs :
           LET sitemapSampleOk == IF run.kind # "skip" /\ isOk(run) THEN 1 ELSE 0
           IN  Step(s, Push(Sent(a, run),
                            Chk("sitemap", IF sitemapSampleOk > 0 THEN "pass" ELSE "warn")),
                    "www", run.dur)

\* the Location header of the variant host's answer
Locations == {"none", "canonical", "other"}

\* www <-> non-www: if (timeLeft() > 250) { ... && spend() ... retry(fetch) };
\* then the checks computed from the page alone
WwwVariant(s) ==
  /\ pc[s] = "www"
  /\ Runnable(s)
  /\ LET a0 == aud[s]
         P == PageFeat(a0.page)
         enter == timeLeft(wake[s], a0.startedAt) > 250
         a == Starve(IF enter THEN Spend(a0, 1) ELSE a0, "www-canonical", ~enter)
         runs == IF enter /\ spendOk(a0.budget, 1)
                 THEN retryFetch(Host(s), "www", TIME_SMALL_MS, wake[s], a0.startedAt,
                                 Left(a0))
                 ELSE {Skipped}
     IN  \E run \in runs :
         \E loc \in IF run.kind = "res"
                    THEN Opt("canonical", Locations, Left(a0) - run.faults)
                    ELSE {"canonical"} :
           LET tested == run.kind # "skip"
               good == /\ run.kind = "res"
                       /\ loc = "canonical"
                       /\ run.status \in {301, 308, 302, 307}
           IN  Step(s, [PushAll(Fault(Sent(a, run), Cost(loc, "canonical")),
                                <<Chk("www-canonical", wwwStatus(tested, good))>>
                                  \o PureChecks(P, a0.status, a0.timingMs))
                          EXCEPT !.img = 0, !.brk = FALSE],
                    "img", run.dur)

\* one image: if (!spend() || timeLeft() < 200) break; retry(HEAD); the
\* content-length of the answer may be above 300 000
ImageHead(s) ==
  /\ pc[s] = "img"
  /\ Runnable(s)
  /\ ImageGoes(aud[s])
  /\ LET a0 == aud[s]
         inTime == ~(timeLeft(wake[s], a0.startedAt) < 200)
         a == Starve(Spend(a0, 1), "img-size", ~inTime)
         go == spendOk(a0.budget, 1) /\ inTime
     IN  IF ~go
         THEN Step(s, [a EXCEPT !.brk = TRUE], "img", 0)
         ELSE \E run \in retryFetch(Host(s), "image", TIME_ASSET_MS, wake[s],
                                    a0.startedAt, Left(a0)) :
              \E big \in IF run.kind = "res"
                         THEN Opt(FALSE, BOOLEAN, Left(a0) - run.faults)
                         ELSE {FALSE} :
                Step(s, [Fault(Sent(a, run), Cost(big, FALSE)) EXCEPT
                           !.img = @ + 1,
                           !.huge = IF run.kind = "res" /\ big THEN @ + 1 ELSE @],
                     "img", run.dur)

normalPayload(r, a, psi) ==
  Payload(FALSE, FALSE, r.url, ParseUrl(WithScheme(r.url)), a.status, a.timingMs,
          PageFeat(a.page).title, PageFeat(a.page).metaDesc, psi, a.checks, env.debug)

\* after the image loop: the image checks, the placeholders, PSI under
\* spend(2) && timeLeft() > 2000, and the payload
Psi(s) ==
  /\ pc[s] = "img"
  /\ Runnable(s)
  /\ ~ImageGoes(aud[s])
  /\ LET a0 == aud[s]
         inTime == timeLeft(wake[s], a0.startedAt) > 2000
         a1 == Starve(Spend(PushAll(a0, ImageChecks(PageFeat(a0.page), a0.huge)
                                          \o Placeholders), 2),
                      "psi", ~inTime)
         go == spendOk(a0.budget, 2) /\ inTime
         runs == IF go
                 THEN psiRuns(Host(s), within(TIME_PSI_MS, wake[s], a0.startedAt),
                              wake[s], a0.startedAt, Left(a0))
                 ELSE { [Skipped EXCEPT !.status = NoPsi] }
     IN  \E run \in runs :
           LET a == [PushAll(Sent(a1, run), psiChecks(run.status))
                       EXCEPT !.psi = run.status]
           IN  Step(s, Return(a, normalPayload(req[s], a, run.status)), "ret", run.dur)

(***************************************************************************)
(* The specifications.                                                     *)
(***************************************************************************)
Audit(s) ==
  \/ MainPageFetch(s) \/ BlockedRetry(s)
  \/ BlockedRobots(s) \/ BlockedSitemap(s) \/ BlockedFavicon(s)
  \/ TimeoutFavicon(s) \/ TimeoutRobots(s) \/ TimeoutSitemap(s) \/ TimeoutPsi(s)
  \/ ReadBody(s) \/ OpenGraph(s) \/ Favicon(s) \/ Robots(s)
  \/ SitemapFind(s) \/ SitemapGet(s) \/ SitemapSample(s)
  \/ WwwVariant(s) \/ ImageHead(s) \/ Psi(s)

Handler(s) ==
  \/ Arrive(s) \/ Start(s) \/ Ret(s) \/ Snapshot(s) \/ Respond(s) \/ Close(s)

Next ==
  \/ \E s \in Slots : Handler(s) \/ Audit(s) \/ Blob(s) \/ Id1(s) \/ Id2(s)
  \/ Idle

\* the service, serving sites that answer as usual
Spec == Init /\ [][Next]_vars

\* the continuation of s runs: the event loop runs every continuation whose
\* await has settled, and every fetch and body read settles
Continue(s) ==
  \/ Start(s) \/ Ret(s) \/ Snapshot(s) \/ Respond(s)
  \/ Audit(s) \/ Blob(s) \/ Id1(s) \/ Id2(s)

\* one request of any kind, to a site that departs from its usual answers
\* at up to one place
InitLive == InitWith(Envs(Requests, 1, 1))

\* the service under that scheduling
SpecLive == InitLive /\ [][Next]_vars /\ \A s \in Slots : WF_vars(Continue(s))

NextAudit == \E s \in Slots : Arrive(s) \/ Start(s) \/ Audit(s) \/ Ret(s) \/ Close(s)

\* one audit of a site that departs from its usual answers at up to MaxFaults
\* places
SpecAudit == InitAudit /\ [][NextAudit]_vars

(***************************************************************************)
(* Properties of the cache (specification Spec).                           *)
(***************************************************************************)
Key(s) == normalizeKey(req[s].url)
Keys == { normalizeKey(u) : u \in RawUrls }

Degraded(payload) == payload.blocked \/ payload.timeout

\* slot s is served a report over HTTP 200
Reported(s) == pc[s] = "done" /\ resp[s].kind = "report" /\ resp[s].status = 200

\* the step is the handler of s passing its cache lookup
Lookup(s) ==
  /\ pc[s] = "start"
  /\ pc'[s] # "start"
  /\ req[s].param = "url"

\* C1: after any sequence of GET and POST requests no cache entry holds a
\* payload with blocked or timeout set, and no response marked cached:true
\* carries such a payload.
C1_CacheNeverDegraded ==
  /\ \A k \in DOMAIN CACHE : ~Degraded(CACHE[k].payload)
  /\ \A s \in Slots : resp[s].cached => ~Degraded(resp[s].payload)

\* a degraded site was audited twice, the second time after the first report
\* was returned: both reports are fresh and the cache has no entry for it
C1_Witness ==
  \E a, b \in Slots :
    /\ a # b /\ Reported(a) /\ Reported(b)
    /\ Degraded(resp[a].payload) /\ Degraded(resp[b].payload)
    /\ Key(a) = Key(b) /\ ReadsCache(req[b])
    /\ aud[b].startedAt >= resp[a].at
    /\ ~resp[b].cached /\ Key(b) \notin DOMAIN CACHE

\* C2 (as amended): a request without nocache and without snapshot whose key
\* has an entry that is not expired is answered with exactly that entry's
\* payload, cached:true and cacheAgeMs = now - createdAt, without any outbound
\* request and without touching the cache; without such an entry it runs an
\* audit.  The entry of a key is the report of the latest audit of that key
\* that was not requested with snapshot and ended neither BLOCKED nor TIMEOUT.
C2_CacheHit ==
  [][\A s \in Slots :
       /\ (Lookup(s) /\ ReadsCache(req[s])) =>
            LET key == Key(s)
                t == wake[s]
            IN  IF key \in DOMAIN CACHE /\ t <= CACHE[key].expiresAt
                THEN /\ Reported(s)'
                     /\ resp'[s].cached
                     /\ resp'[s].payload = CACHE[key].payload
                     /\ resp'[s].cacheAgeMs = t - CACHE[key].createdAt
                     /\ ~resp'[s].diag /\ ~resp'[s].share
                     /\ aud'[s].sent = 0
                     /\ CACHE' = CACHE
                ELSE pc'[s] = "page" /\ resp'[s] = NoResp
       /\ (pc[s] = "ret" /\ pc'[s] # "ret" /\ aud[s].err = "") =>
            IF req[s].snapshot \/ Degraded(aud[s].out)
            THEN CACHE' = CACHE
            ELSE /\ Key(s) \in DOMAIN CACHE'
                 /\ CACHE'[Key(s)] = [payload |-> resp'[s].payload,
                                      createdAt |-> wake[s],
                                      expiresAt |-> wake[s] + CACHE_TTL_MS]
                 /\ \A k \in DOMAIN CACHE \ {Key(s)} :
                      k \in DOMAIN CACHE' /\ CACHE'[k] = CACHE[k]]_vars

\* the same page, written another way, is answered from the cache some time
\* after the audit that filled it
C2_Witness ==
  \E s \in Slots :
    /\ Reported(s) /\ resp[s].cached
    /\ req[s].url = OkAgain
    /\ resp[s].cacheAgeMs > 0
    /\ aud[s].sent = 0
    /\ CACHE[Key(s)].payload.url = Site("ok.test")

\* C2 (as stated): once an audit has returned a report that is neither BLOCKED
\* nor TIMEOUT, a request without nocache and without snapshot for the same
\* key within the TTL returns that payload with cached:true and sends no
\* outbound request.
C2_AnyAuditIsReplayed ==
  [][\A a, b \in Slots :
       ( /\ a # b
         /\ Reported(a) /\ ~resp[a].cached /\ ~Degraded(resp[a].payload)
         /\ Lookup(b) /\ ReadsCache(req[b])
         /\ Key(b) = Key(a)
         /\ wake[b] <= resp[a].at + CACHE_TTL_MS )
       => /\ Reported(b)'
          /\ resp'[b].cached
          /\ resp'[b].payload = resp[a].payload
          /\ aud'[b].sent = 0]_vars

\* C3: a POST with snapshot:true neither reads nor writes the cache: no step
\* of its handler changes the cache, whatever the audit or the snapshot save
\* returns, and its lookup step goes on to the audit even when the key has an
\* entry that is not expired.
C3_SnapshotLeavesCache ==
  [][\A s \in Slots :
       (req[s].snapshot /\ (pc'[s] # pc[s] \/ aud'[s] # aud[s])) =>
         /\ CACHE' = CACHE
         /\ Lookup(s) => pc'[s] = "page" /\ aud'[s].startedAt = wake[s]]_vars

\* a snapshot request for a key with a live entry was audited and answered
\* with the share fields; the entry is still the one it found
C3_Witness ==
  \E s \in Slots :
    /\ req[s].snapshot /\ Reported(s) /\ resp[s].share
    /\ aud[s].sent > 0
    /\ Key(s) \in DOMAIN CACHE
    /\ CACHE[Key(s)].createdAt < aud[s].startedAt
    /\ aud[s].startedAt <= CACHE[Key(s)].expiresAt

\* the instants at which a lookup is compared with the entries of the cache
Instants ==
  {now} \cup { CACHE[k].expiresAt + d : k \in DOMAIN CACHE, d \in {-1, 0, 1} }

\* C4: cacheGet(key) returns the stored record iff there is one for key and
\* the time is not past its expiresAt; otherwise it returns none, and the
\* cache afterwards is the cache before without the expired record of key
\* (every other record stays).
C4_CacheGet ==
  \A key \in Keys : \A t \in Instants :
    LET has == key \in DOMAIN CACHE
        live == has /\ t <= CACHE[key].expiresAt
        after == cacheGetMap(CACHE, key, t)
    IN  /\ cacheGetRec(CACHE, key, t) = (IF live THEN CACHE[key] ELSE NoRec)
        /\ live => CACHE[key] # NoRec
        /\ DOMAIN after = (IF has /\ ~live THEN DOMAIN CACHE \ {key} ELSE DOMAIN CACHE)
        /\ \A k \in DOMAIN after : after[k] = CACHE[k]

\* a lookup one millisecond past expiresAt removed the only entry and went on
\* to the audit
C4_Witness ==
  \E s \in Slots :
    /\ pc[s] = "page" /\ ReadsCache(req[s])
    /\ aud[s].startedAt > CACHE_TTL_MS
    /\ DOMAIN CACHE = {}

(***************************************************************************)
(* Properties of the reports of runAudit (specification SpecAudit) and of  *)
(* the responses that carry them (specification Spec).                     *)
(***************************************************************************)
\* runAudit of slot s has returned the report aud[s].out
Returned(s) == aud[s].out # NoPayload

\* runAudit of slot s has ended, with a report or an exception
Ended(s) == pc[s] \in {"ret", "snapshot", "respond", "done"} /\ aud[s].path # ""

HasCheck(R, id, status) ==
  \E i \in DOMAIN R.checks : R.checks[i].id = id /\ R.checks[i].status = status

\* C5: when the main page fetch ends in an abort, runAudit returns a report
\* (it does not throw) with timeout = true, fetchedStatus = 0, timingMs =
\* OVERALL_BUDGET_MS and empty title and metaDescription.
C5_TimeoutReport ==
  \A s \in Slots :
    (Ended(s) /\ aud[s].path = "timeout") =>
      /\ aud[s].err = ""
      /\ aud[s].out.timeout
      /\ aud[s].out.fetchedStatus = 0
      /\ aud[s].out.timingMs = OVERALL_BUDGET_MS
      /\ aud[s].out.title = ""
      /\ aud[s].out.metaDescription = ""

\* C6: a target that times out, blocks or answers with a status that is not
\* 2xx is reported over HTTP 200 (requests without snapshot, whose response
\* depends on nothing but the audit).
C6_RemoteTroubleIs200 ==
  \A s \in Slots :
    ( /\ pc[s] = "done" /\ req[s].param = "url" /\ ~req[s].snapshot
      /\ \/ aud[s].path \in {"timeout", "blocked"}
         \/ aud[s].path = "normal" /\ ~(aud[s].status \in 200..299) )
    => resp[s].status = 200

\* C7: in every report runAudit returns, fetchedStatus = 0 iff timeout = true,
\* and a report with timeout = true has a check `timeout` with status warn.
C7_TimeoutIffStatus0 ==
  \A s \in Slots :
    Returned(s) =>
      LET R == aud[s].out
      IN  /\ (R.fetchedStatus = 0) <=> R.timeout
          /\ R.timeout => HasCheck(R, "timeout", "warn")

\* a report of the TIMEOUT path was returned
C7_Witness ==
  \E s \in Slots :
    /\ Returned(s) /\ aud[s].path = "timeout"
    /\ aud[s].out.timeout /\ aud[s].out.fetchedStatus = 0

\* C8: in every report runAudit returns, blocked = true implies that
\* fetchedStatus is 401, 403 or 429 and that there is a check `blocked` with
\* status fail.
C8_BlockedStatus ==
  \A s \in Slots :
    Returned(s) =>
      LET R == aud[s].out
      IN  R.blocked => /\ R.fetchedStatus \in {401, 403, 429}
                       /\ HasCheck(R, "blocked", "fail")

\* a BLOCKED report whose status is the one of the re-fetch
C8_Witness ==
  \E s \in Slots :
    /\ Returned(s) /\ aud[s].out.blocked
    /\ aud[s].retryRes = "res" /\ aud[s].out.fetchedStatus = 429

\* the step in which slot s decides between BLOCKED and the normal path, with
\* the status of the first response in aud[s].status, the outcome of the
\* re-fetch in aud'[s].retryRes and the status kept in aud'[s].status
Decides(s) == pc[s] = "blockedRetry" /\ pc'[s] # "blockedRetry"

Blocks(s) == aud'[s].path = "blocked" /\ pc'[s] = "bRobots"
Parses(s) == aud'[s].path = "" /\ pc'[s] = "body"

\* what holds of the decision whatever the re-fetch does: the re-fetch is
\* made exactly for a first status in 401, 403, 429, BLOCKED is entered only
\* by the decision and the report says blocked exactly on that path
DecisionFrame(s) ==
  /\ (pc[s] = "page" /\ pc'[s] # "page") =>
       /\ aud'[s].path # "blocked"
       /\ (pc'[s] = "blockedRetry") <=> (aud'[s].status \in {401, 403, 429})
  /\ Decides(s) => aud[s].status \in {401, 403, 429}
  /\ (aud'[s].path = "blocked" /\ aud[s].path # "blocked") => Decides(s)
  /\ (Returned(s)' /\ ~Returned(s)) =>
       (aud'[s].out.blocked <=> aud'[s].path = "blocked")

\* C9 (as amended): the audit ends in BLOCKED exactly when the first page
\* response has a status in 401, 403, 429 and the re-fetch with browser
\* headers either returned a status in 401, 403, 429 or failed (threw or was
\* aborted); it proceeds to the HTML parse exactly when the re-fetch returned
\* a response with another status.
C9_BlockedDecision ==
  [][\A s \in Slots :
       /\ DecisionFrame(s)
       /\ Decides(s) =>
            IF \/ aud'[s].retryRes # "res"
               \/ aud'[s].status \in {401, 403, 429}
            THEN Blocks(s)
            ELSE Parses(s)]_vars

\* BLOCKED after a re-fetch that was aborted, and after one that threw
C9_Witness ==
  \E s \in Slots :
    /\ Returned(s) /\ aud[s].out.blocked
    /\ aud[s].retryRes \in {"abort", "neterr", "err"}
    /\ aud[s].out.fetchedStatus = 403

\* C9 (as stated): BLOCKED exactly when the first status is in 401, 403, 429
\* and the re-fetch also returned a status in 401, 403, 429; every other
\* outcome of the re-fetch proceeds to the HTML parse.
C9_BlockedOnlyOnSecondBlock ==
  [][\A s \in Slots :
       /\ DecisionFrame(s)
       /\ Decides(s) =>
            IF aud'[s].retryRes = "res" /\ aud'[s].status \in {401, 403, 429}
            THEN Blocks(s)
            ELSE Parses(s)]_vars

PlaceholderIds ==
  {"mixed-content", "security-headers", "https-redirect", "compression",
   "structured-data", "h1-structure", "llms"}

NormalIds ==
  {"opengraph", "favicon", "robots", "sitemap", "www-canonical", "http", "ttfb",
   "canonical", "noindex", "meta-robots", "meta-description", "title-length",
   "viewport", "img-alt", "img-modern", "img-size", "img-lazy"}

\* the ids applicable to a report: those of its path, the locked
\* placeholders, and psi when a score was read
Applicable(R) ==
  (IF R.timeout THEN {"timeout", "favicon", "robots", "sitemap"}
   ELSE IF R.blocked THEN {"blocked", "robots", "sitemap", "favicon"}
   ELSE NormalIds)
    \cup PlaceholderIds
    \cup (IF R.speed # NoPsi THEN {"psi"} ELSE {})

\* C10: in every report runAudit returns, on the normal, the BLOCKED and the
\* TIMEOUT path and whatever the probes answered, no check id occurs twice
\* and every id applicable to the path occurs exactly once.
C10_OneCheckPerId ==
  \A s \in Slots :
    Returned(s) =>
      LET cs == aud[s].out.checks
      IN  /\ \A i, j \in DOMAIN cs : cs[i].id = cs[j].id => i = j
          /\ { cs[i].id : i \in DOMAIN cs } = Applicable(aud[s].out)

\* a report of the normal path with a PSI score, of an audit in which the
\* remote world used all its faults
C10_Witness ==
  \E s \in Slots :
    /\ Returned(s) /\ aud[s].path = "normal"
    /\ aud[s].faults = MaxFaults
    /\ aud[s].out.speed # NoPsi
    /\ Len(aud[s].out.checks) = 25

\* C11: every report runAudit returns, on the normal, the BLOCKED and the
\* TIMEOUT path, holds each of the seven ids mixed-content, security-headers,
\* https-redirect, compression, structured-data, h1-structure and llms as a
\* check with status locked and locked = true, and no other check has the
\* status locked (or locked = true).
C11_LockedPlaceholders ==
  \A s \in Slots :
    Returned(s) =>
      LET cs == aud[s].out.checks
      IN  /\ \A id \in PlaceholderIds :
               \E i \in DOMAIN cs :
                 cs[i] = [id |-> id, status |-> "locked", locked |-> TRUE]
          /\ \A i \in DOMAIN cs :
               (cs[i].status = "locked" \/ cs[i].locked) => cs[i].id \in PlaceholderIds

\* a BLOCKED report: four checks of its own and the seven placeholders
C11_Witness ==
  \E s \in Slots :
    /\ Returned(s) /\ aud[s].path = "blocked"
    /\ Len(aud[s].out.checks) = 11
    /\ Cardinality({ i \in DOMAIN aud[s].out.checks :
                       aud[s].out.checks[i].status = "locked" }) = 7

HasId(R, id) == \E i \in DOMAIN R.checks : R.checks[i].id = id

\* C12: in every report runAudit returns, a check with id blocked occurs only
\* when blocked = true, a check with id timeout only when timeout = true, and
\* a report with blocked = true holds neither an http nor a ttfb check.
C12_PathChecks ==
  \A s \in Slots :
    Returned(s) =>
      LET R == aud[s].out
      IN  /\ HasId(R, "blocked") => R.blocked
          /\ HasId(R, "timeout") => R.timeout
          /\ R.blocked => ~HasId(R, "http") /\ ~HasId(R, "ttfb")

\* a BLOCKED report whose best-effort robots.txt was read and disallows
C12_Witness ==
  \E s \in Slots :
    /\ Returned(s) /\ aud[s].out.blocked
    /\ HasId(aud[s].out, "blocked")
    /\ HasCheck(aud[s].out, "robots", "fail")
    /\ ~HasId(aud[s].out, "http")

(***************************************************************************)
(* Properties of the probes of the normal path (specification SpecAudit).  *)
(***************************************************************************)
\* the status of the check id in the report R
StatusOf(R, id) ==
  IF HasId(R, id)
  THEN R.checks[CHOOSE i \in DOMAIN R.checks : R.checks[i].id = id].status
  ELSE "omitted"

StatusIn(cs, id) == cs[CHOOSE i \in DOMAIN cs : cs[i].id = id].status

\* the probes of the normal path, by the id of their check
Probes ==
  {"opengraph", "favicon", "robots", "sitemap", "www-canonical", "img-size", "psi"}

\* the status of the sitemap check when robots.txt and the sitemap answer as
\* the host usually does
UsualSitemap(host) ==
  LET listed == resOk(Fixture(host, "robots")) /\ UsualRobots(host) = "listed"
      found == \/ listed /\ resOk(Fixture(host, "sitemapListed"))
               \/ resOk(Fixture(host, "sitemap"))
  IN  IF ~found THEN "fail"
      ELSE IF resOk(Fixture(host, "sitemapxml")) /\ isOk(Fixture(host, "sample"))
      THEN "pass"
      ELSE "warn"

\* the status of the check id of the audit a of host when the probe of that
\* check runs and is answered as usual; for the checks without a probe, the
\* status the page fetched gives
UsualStatus(host, a, id) ==
  LET P == PageFeat(a.page)
      www == Fixture(host, "www")
  IN  CASE id = "opengraph" ->
             opengraphStatus(P, IF ~P.ogImage THEN "unknown"
                                ELSE IF resOk(Fixture(host, "ogimage")) THEN "yes"
                                ELSE "no")
        [] id = "favicon" ->
             faviconStatus(IF isOk(Fixture(host, "favicon")) THEN "yes" ELSE "no")
        [] id = "robots" ->
             robotsStatus(resOk(Fixture(host, "robots")),
                          UsualRobots(host) # "disallow")
        [] id = "sitemap" -> UsualSitemap(host)
        [] id = "www-canonical" ->
             wwwStatus(TRUE, www.kind = "res" /\ www.status \in {301, 308, 302, 307})
        [] id = "img-size" -> imgSizeStatus(0)
        [] id = "psi" ->
             IF resOk(Fixture(host, "psi")) THEN psiStatus(UsualPsi) ELSE "omitted"
        [] id \in {"img-alt", "img-modern", "img-lazy"} ->
             StatusIn(ImageChecks(P, 0), id)
        [] OTHER -> StatusIn(PureChecks(P, a.status, a.timingMs), id)

\* a probe that other probes could not have influenced: it was answered as
\* usual and did not start on too little time, and for the sitemap discovery
\* the same holds of robots.txt, whose Sitemap: lines it uses
Undisturbed(a, id) ==
  /\ id \notin a.departed \cup a.starved
  /\ id = "sitemap" => "robots" \notin a.departed \cup a.starved

\* C13 (as amended): once the main page is fetched with a non-block status
\* and its body read, runAudit returns a report whatever the probes answer
\* (it never throws), and every check whose own probe was answered as usual
\* has its usual status whatever the other probes answered, unless the probe
\* started with too little of the time budget left after the others (it is
\* then skipped) or, for the sitemap check, robots.txt was not read as usual.
C13_ProbesIsolated ==
  \A s \in Slots :
    (Ended(s) /\ aud[s].path = "normal") =>
      /\ aud[s].err = ""
      /\ Returned(s)
      /\ \A id \in NormalIds \cup {"psi"} :
           Undisturbed(aud[s], id) =>
             StatusOf(aud[s].out, id) = UsualStatus(Host(s), aud[s], id)

\* a report after the Open Graph image failed to load and the variant host
\* answered without redirect: opengraph and www-canonical are warn, every
\* other probe ran and has its usual status
C13_Witness ==
  \E s \in Slots :
    /\ Returned(s) /\ aud[s].path = "normal"
    /\ aud[s].departed = {"opengraph", "www-canonical"}
    /\ aud[s].starved = {}
    /\ StatusOf(aud[s].out, "opengraph") = "warn"
    /\ StatusOf(aud[s].out, "www-canonical") = "warn"
    /\ StatusOf(aud[s].out, "favicon") = "pass"
    /\ StatusOf(aud[s].out, "psi") = "pass"

\* C13 (as stated): once the main page is fetched with a non-block status
\* and its body read, runAudit returns a report whatever the probes answer,
\* and the outcome of one probe changes the status of no check other than
\* that probe's own: when the page itself was fetched as usual, every check
\* whose own probe was answered as usual has its usual status.
C13_ProbesIndependent ==
  \A s \in Slots :
    (Ended(s) /\ aud[s].path = "normal") =>
      /\ aud[s].err = ""
      /\ Returned(s)
      /\ "page" \notin aud[s].departed =>
           \A id \in NormalIds \cup {"psi"} :
             id \notin aud[s].departed =>
               StatusOf(aud[s].out, id) = UsualStatus(Host(s), aud[s], id)

\* C14: when the deadline expires during a probe other than the main page
\* fetch, or leaves too little time for it, the check of that probe is never
\* reported as fail (it is warn, or omitted).
C14_DeadlineNeverFails ==
  \A s \in Slots :
    Returned(s) =>
      \A id \in aud[s].starved \ {"page"} : StatusOf(aud[s].out, id) # "fail"

\* C15: whatever the probes answer, the time between the start of runAudit
\* and the return of its report is at most OVERALL_BUDGET_MS.
C15_WithinBudget ==
  \A s \in Slots :
    (pc[s] = "ret" /\ Returned(s)) =>
      wake[s] - aud[s].startedAt <= OVERALL_BUDGET_MS

(***************************************************************************)
(* The scorer of the PDF report (src/app/api/send-pdf/route.js).  A check  *)
(* is [id, status].  Weights are in tenths, category weights in            *)
(* hundredths and the value of a status in halves; a score is the reduced  *)
(* fraction <<numerator, denominator>>, where the code computes in         *)
(* doubles.                                                                *)
(***************************************************************************)
Categories == {"SEO", "PERFORMANCE", "SECURITY"}

CATS ==
  [SEO |-> {"sitemap", "robots", "favicon", "opengraph", "canonical",
            "noindex", "meta-robots", "meta-description", "title-length",
            "viewport", "www-canonical", "img-alt", "structured-data",
            "h1-structure", "llms"},
   PERFORMANCE |-> {"timeout", "psi", "ttfb", "img-modern", "img-size",
                    "img-lazy", "compression"},
   SECURITY |-> {"blocked", "http", "https-redirect", "mixed-content",
                 "security-headers"}]

LOCKED_IDS ==
  {"h1-structure", "llms", "mixed-content", "security-headers", "compression",
   "structured-data", "https-redirect"}

EXCLUDE_FROM_SCORE == {"blocked", "timeout"}

\* WEIGHTS[id], and 1 for an id it does not hold
WEIGHTS(id) ==
  CASE id = "sitemap" -> 22
    [] id = "canonical" -> 20
    [] id = "meta-robots" -> 10
    [] id = "robots" -> 16
    [] id = "www-canonical" -> 12
    [] id = "noindex" -> 50
    [] id = "img-alt" -> 12
    [] id = "viewport" -> 11
    [] id = "meta-description" -> 8
    [] id = "title-length" -> 8
    [] id = "opengraph" -> 5
    [] id = "favicon" -> 3
    [] id = "psi" -> 24
    [] id = "ttfb" -> 14
    [] id = "img-size" -> 12
    [] id = "img-modern" -> 8
    [] id = "img-lazy" -> 6
    [] id = "http" -> 20
    [] id = "https-redirect" -> 18
    [] id = "mixed-content" -> 18
    [] id = "security-headers" -> 10
    [] id = "compression" -> 12
    [] id = "structured-data" -> 14
    [] OTHER -> 10

CATEGORY_WEIGHTS == [SEO |-> 55, PERFORMANCE |-> 35, SECURITY |-> 10]

RECURSIVE GCD(_, _)
GCD(a, b) == IF b = 0 THEN a ELSE GCD(b, a % b)

\* n / d in lowest terms
Frac(n, d) == LET g == GCD(n, d) IN <<n \div g, d \div g>>

\* Math.round of the fraction n / d >= 0
Round(n, d) == (2 * n + d) \div (2 * d)

usable(c) == c.id \notin LOCKED_IDS /\ c.id \notin EXCLUDE_FROM_SCORE

vFor(st) == IF st = "pass" THEN 2 ELSE IF st = "warn" THEN 1 ELSE 0

\* the value catWeightedScore returns when no check of the category counts
NullScore == <<-1, 1>>

RECURSIVE WeighedSum(_)
WeighedSum(items) ==
  IF items = <<>> THEN 0
  ELSE WEIGHTS(Head(items).id) * vFor(Head(items).status)
         + WeighedSum(Tail(items))

RECURSIVE WeightSum(_)
WeightSum(items) ==
  IF items = <<>> THEN 0
  ELSE 2 * WEIGHTS(Head(items).id) + WeightSum(Tail(items))

catWeightedScore(checks, ids) ==
  LET items == SelectSeq(checks, LAMBDA c : usable(c) /\ c.id \in ids)
  IN  IF Len(items) = 0 THEN NullScore
      ELSE Frac(WeighedSum(items), WeightSum(items))

\* Math.max(0.05, Math.min(1, s))
Clamp(s) ==
  IF 20 * s[1] < s[2] THEN <<1, 20>>
  ELSE IF s[1] > s[2] THEN <<1, 1>> ELSE s

\* the entries harmonicMean keeps: typeof v === "number" && v > 0
Entries(catScores) ==
  { c \in Categories : catScores[c] # NullScore /\ catScores[c][1] > 0 }

RECURSIVE SumOver(_, _)
SumOver(S, f) ==
  IF S = {} THEN 0
  ELSE LET x == CHOOSE y \in S : TRUE IN f[x] + SumOver(S \ {x}, f)

RECURSIVE ProductOver(_, _)
ProductOver(S, f) ==
  IF S = {} THEN 1
  ELSE LET x == CHOOSE y \in S : TRUE IN f[x] * ProductOver(S \ {x}, f)

\* num / denom of harmonicMean over the entries it is given: the sum of the
\* weights by the sum of weight / clamped score
MeanOver(catScores, entries) ==
  LET s == [c \in entries |-> Clamp(catScores[c])]
      p == [c \in entries |-> s[c][1]]
      P == ProductOver(entries, p)
      num == SumOver(entries, CATEGORY_WEIGHTS) * P
      denom == SumOver(entries,
                 [c \in entries |-> CATEGORY_WEIGHTS[c] * s[c][2] * (P \div p[c])])
  IN  Frac(num, denom)

harmonicMean(catScores) ==
  LET entries == Entries(catScores)
  IN  IF entries = {} THEN <<1, 1>> ELSE MeanOver(catScores, entries)

\* byId[id]: of several checks with one id the last one stays
isFail(checks, id) ==
  \E i \in 1..Len(checks) :
    /\ checks[i].id = id
    /\ \A j \in (i + 1)..Len(checks) : checks[j].id # id
    /\ checks[i].status = "fail"

applyGatesUpTo(overall0to100, checks) ==
  IF isFail(checks, "noindex") THEN 0
  ELSE LET o1 == IF isFail(checks, "http")
                 THEN Min(overall0to100, 40) ELSE overall0to100
       IN  IF isFail(checks, "canonical") THEN Min(o1, 65) ELSE o1

applyGates(overall0to100, checks) ==
  IF isFail(checks, "noindex") THEN 0
  ELSE LET o1 == IF isFail(checks, "http")
                 THEN Min(overall0to100, 40) ELSE overall0to100
           o2 == IF isFail(checks, "canonical") THEN Min(o1, 65) ELSE o1
       IN  IF isFail(checks, "sitemap") \/ isFail(checks, "robots")
           THEN Min(o2, 80) ELSE o2

\* pre: the rounded mean before the gates
computeOverall(checks) ==
  LET catScores == [c \in Categories |-> catWeightedScore(checks, CATS[c])]
      h == harmonicMean(catScores)
      overall == Round(100 * h[1], h[2])
  IN  [overall |-> applyGates(overall, checks), pre |-> overall,
       catScores |-> catScores]

(***************************************************************************)
(* Calls of the pure functions: the argument is drawn at the start and one *)
(* action applies the function to it.                                      *)
(***************************************************************************)
Check(id, status) == [id |-> id, status |-> status]

\* the ids whose status varies in the lists of checks scored
ScoreIds == <<"noindex", "http", "canonical", "sitemap", "robots", "favicon", "ttfb">>

ScoreStatuses == {"pass", "warn", "fail", "absent"}

\* the checks of ScoreIds from the i-th on that f holds, in order
RECURSIVE ChecksFrom(_, _)
ChecksFrom(f, i) ==
  IF i > Len(ScoreIds) THEN <<>>
  ELSE (IF f[ScoreIds[i]] = "absent" THEN <<>>
        ELSE <<Check(ScoreIds[i], f[ScoreIds[i]])>>) \o ChecksFrom(f, i + 1)

\* what follows them: nothing, or a locked check, an excluded check and a
\* second noindex check
Trailers ==
  { <<>> } \cup
  { <<Check("llms", "locked"), Check("blocked", "fail"), Check("noindex", st)>>
    : st \in {"pass", "fail"} }

CheckLists ==
  { ChecksFrom(f, 1) \o t :
      f \in [{ScoreIds[i] : i \in 1..Len(ScoreIds)} -> ScoreStatuses],
      t \in Trailers }

\* the URLs whose keys are compared
KeyUrls ==
  { Url(sc, h, segs, n, q, f) :
      sc \in {"", "http"}, h \in {"ok.test", "OK.test", "no host.test"},
      segs \in {<<>>, <<"a">>}, n \in 0..MaxSlashes, q \in {"", "q"},
      f \in {"", "h"} }

(***************************************************************************)
(* The canonical check on the tags of a page: canonTags is the sequence of *)
(* the href values of the link tags with rel=canonical, NoUrl for a tag    *)
(* that has none.                                                          *)
(***************************************************************************)
\* new URL(href, base).toString() for an absolute href or one that starts
\* with "/"
absUrl(base, href) ==
  ParseUrl(IF href.scheme = ""
           THEN [href EXCEPT !.scheme = base.scheme, !.host = base.host]
           ELSE href)

\* hash and search cleared, and the trailing slashes of a pathname other
\* than "/" removed (a pathname left empty is "/")
Bare(u) ==
  LET p == ParseUrl(u)
  IN  [p EXCEPT !.hash = "", !.query = "",
                !.slashes = IF p.segs = <<>> THEN 1 ELSE 0]

\* what the first tag says: "none", "match" or "mismatch"
canonFirstOf(finalUrl, canonTags) ==
  IF canonTags = <<>> \/ Head(canonTags) = NoUrl THEN "none"
  ELSE IF Bare(absUrl(finalUrl, Head(canonTags))) = Bare(finalUrl)
       THEN "match" ELSE "mismatch"

canonical(finalUrl, canonTags) ==
  canonicalStatus([canonCount |-> Len(canonTags),
                   canonFirst |-> canonFirstOf(finalUrl, canonTags)])

FinalUrls ==
  { Url("https", "ok.test", <<"a">>, 1, "", ""),
    Url("https", "ok.test", <<>>, 1, "q", "") }

Hrefs ==
  { Url(sc, h, segs, n, q, "") :
      sc \in {"https", "http"}, h \in {"ok.test", "OK.test", "other.test"},
      segs \in {<<>>, <<"a">>}, n \in {0, MaxSlashes}, q \in {"", "q"} }
    \cup { Url("", "", <<"a">>, n, q, "h") : n \in {0, MaxSlashes}, q \in {"", "q"} }
    \cup { Url("", "", <<>>, 1, "", "") }

CanonTags ==
  { <<>> } \cup { <<t>> : t \in Hrefs \cup {NoUrl} }
    \cup { <<t1, t2>> : t1 \in Hrefs \cup {NoUrl}, t2 \in Hrefs \cup {NoUrl} }

\* the values of a robots meta tag or X-Robots-Tag header
RobotsValues ==
  {"", "index,follow", "nofollow", "noindex", "NoIndex", "none",
   "noindex,nofollow", "max-image-preview:none"}

\* the noindex and meta-robots checks of a page with these three meta tags
\* and this header
robotsDirectives(robots, googlebot, bingbot, header) ==
  LET P == [robotsMeta |-> LowerCase(robots), googlebotMeta |-> LowerCase(googlebot),
            bingbotMeta |-> LowerCase(bingbot), xRobots |-> LowerCase(header)]
  IN  [noindex |-> noindexStatus(P), metaRobots |-> metaRobotsStatus(P)]

\* the callbacks retry is called with: the page fetch and the favicon probe
\* of an audit started at 0
RetryFns ==
  { FetchFn(h, "page", TIME_PAGE_MS, 0, 0) : h \in {"ok.test", "flaky.test", "slow.test"} }
    \cup { HeadThenGetFn(h, "favicon", TIME_ASSET_MS, 0) : h \in {"ok.test", "flaky.test"} }

Call(fn, arg) == [fn |-> fn, arg |-> arg, out |-> <<>>, done |-> FALSE]

\* Promise.all(toCheck.map(async (u, i) => ...)) over k sampled URLs, entered
\* at t with b units of quota left: the quota, the number of callbacks map
\* has started, what each callback has come to ("inflight", "true", "false")
\* and the spends and requests in the order they happened.  The number of
\* samples and the quota are taken as parameters (LIMITS.SITEMAP_SAMPLES,
\* LIMITS.MAX_SUBREQUESTS).
FanOutTimes == {4000, 8400}
FanOut(k, b, t) ==
  [fn |-> "sampleFanOut", arg |-> [k |-> k, b |-> b, t |-> t],
   out |-> [budget |-> b, begun |-> 0, results |-> <<>>, events |-> <<>>,
            sitemapSampleOk |-> 0],
   done |-> FALSE]

InitUnit ==
  /\ now = 0
  /\ CACHE = [k \in {} |-> NoRec]
  /\ req = [s \in Slots |-> NoReq]
  /\ pc = [s \in Slots |-> "idle"]
  /\ wake = [s \in Slots |-> 0]
  /\ aud = [s \in Slots |-> NoAud]
  /\ resp = [s \in Slots |-> NoResp]
  /\ served = 0
  /\ env \in { e \in Envs({}, 0, 0) : e.debug }
  /\ \/ \E cs \in CheckLists : unit = Call("computeOverall", cs)
     \/ \E u \in KeyUrls, v \in KeyUrls : unit = Call("normalizeKey", <<u, v>>)
     \/ \E m \in [1..4 -> RobotsValues] : unit = Call("noindex", m)
     \/ \E fn \in RetryFns, tries \in 1..MaxTries, k \in 0..MaxFaults :
          unit = Call("retry", [fn |-> fn, tries |-> tries, k |-> k])
     \/ \E h \in {"ok.test", "flaky.test"}, fb \in BOOLEAN, k \in 0..MaxFaults :
          unit = Call("tryHeadThenGet", [host |-> h, fallbackOnNonOk |-> fb, k |-> k])
     \/ \E k \in 0..MaxSamples, b \in 0..MAX_SUBREQUESTS, t \in FanOutTimes :
          unit = FanOut(k, b, t)
     \/ \E f \in FinalUrls, tags \in CanonTags :
          unit = Call("canonical", [finalUrl |-> f, canonTags |-> tags])

Apply(fn, out) ==
  /\ unit.fn = fn
  /\ ~unit.done
  /\ unit' = [unit EXCEPT !.out = out, !.done = TRUE]
  /\ UNCHANGED <<now, CACHE, req, pc, wake, aud, resp, served, env>>

ComputeOverall == Apply("computeOverall", computeOverall(unit.arg))

NormalizeKey ==
  Apply("normalizeKey", <<normalizeKey(unit.arg[1]), normalizeKey(unit.arg[2])>>)

Canonical ==
  Apply("canonical", canonical(unit.arg.finalUrl, unit.arg.canonTags))

Noindex ==
  Apply("noindex", robotsDirectives(unit.arg[1], unit.arg[2], unit.arg[3], unit.arg[4]))

\* retry(fn, {tries}) in a world with k departures left
Retry ==
  /\ unit.fn = "retry"
  /\ \E run \in retry(unit.arg.fn, unit.arg.tries, 400, 0, 0, unit.arg.k) :
       Apply("retry", run)

\* one attempt of tryHeadThenGet(favUrl, {fallbackOnNonOk}) in a world with k
\* departures left
TryHeadThenGet ==
  /\ unit.fn = "tryHeadThenGet"
  /\ \E run \in headThenGetOnce(unit.arg.host, "favicon", TIME_ASSET_MS,
                                 unit.arg.fallbackOnNonOk, 0, 0, unit.arg.k) :
       Apply("tryHeadThenGet", run)

UnitStep(out, done) ==
  /\ unit' = [unit EXCEPT !.out = out, !.done = done]
  /\ UNCHANGED <<now, CACHE, req, pc, wake, aud, resp, served, env>>

\* map calls the callback of the next sample, which runs up to its first
\* await: spend(), the test of timeLeft(), and the HEAD of tryHeadThenGet
SampleBegin ==
  /\ unit.fn = "sampleFanOut"
  /\ ~unit.done
  /\ unit.out.begun < unit.arg.k
  /\ LET o == unit.out
         i == o.begun + 1
         spent == spendOk(o.budget, 1)
         go == spent /\ ~(timeLeft(unit.arg.t, 0) < 200)
     IN  UnitStep([o EXCEPT !.budget = spendLeft(@, 1),
                            !.begun = i,
                            !.results = Append(@, IF go THEN "inflight" ELSE "false"),
                            !.events = @ \o <<[op |-> "spend", i |-> i, ok |-> spent]>>
                                         \o (IF go THEN <<[op |-> "request", i |-> i,
                                                           ok |-> TRUE]>>
                                             ELSE <<>>)],
                  FALSE)

\* the probe of sample i settles, in any order once map has returned
SampleSettle ==
  /\ unit.fn = "sampleFanOut"
  /\ ~unit.done
  /\ unit.out.begun = unit.arg.k
  /\ \E i \in 1..unit.arg.k :
       /\ unit.out.results[i] = "inflight"
       /\ \E run \in tryHeadThenGet("ok.test", "sample",
                                     within(TIME_ASSET_MS, unit.arg.t, 0),
                                     unit.arg.t, 0, MaxFaults) :
            UnitStep([unit.out EXCEPT !.results[i] = IF isOk(run) THEN "true"
                                                     ELSE "false"],
                     FALSE)

\* Promise.all resolves: sitemapSampleOk = results.filter(Boolean).length
SamplesSettled ==
  /\ unit.fn = "sampleFanOut"
  /\ ~unit.done
  /\ unit.out.begun = unit.arg.k
  /\ \A i \in 1..unit.arg.k : unit.out.results[i] # "inflight"
  /\ UnitStep([unit.out EXCEPT !.sitemapSampleOk =
                  Cardinality({i \in 1..unit.arg.k : unit.out.results[i] = "true"})],
              TRUE)

NextUnit ==
  \/ ComputeOverall \/ NormalizeKey \/ Canonical \/ Noindex \/ Retry
  \/ TryHeadThenGet
  \/ SampleBegin \/ SampleSettle \/ SamplesSettled

\* one call of a pure function
SpecUnit == InitUnit /\ [][NextUnit]_vars

\* the call of fn has returned
Called(fn) == unit.fn = fn /\ unit.done

\* the last check of cs with this id, the one applyGates looks at, failed
Failed(cs, id) ==
  LET at == { i \in 1..Len(cs) : cs[i].id = id }
  IN  at # {} /\ cs[CHOOSE i \in at : \A j \in at : j <= i].status = "fail"

\* C16: for every list of checks computeOverall returns an integer in
\* [0,100]; it is exactly 0 when noindex failed, at most 40 when http failed,
\* at most 65 when canonical failed, at most 80 when sitemap or robots
\* failed, and never above the score before the gates.
C16_ScoreGated ==
  Called("computeOverall") =>
    LET cs == unit.arg
        r == unit.out
    IN  /\ r.overall \in 0..100
        /\ Failed(cs, "noindex") => r.overall = 0
        /\ Failed(cs, "http") => r.overall <= 40
        /\ Failed(cs, "canonical") => r.overall <= 65
        /\ (Failed(cs, "sitemap") \/ Failed(cs, "robots")) => r.overall <= 80
        /\ r.overall <= r.pre

\* a list scored 95 before the gates whose only failure is robots: 80
C16_Witness ==
  /\ Called("computeOverall")
  /\ Failed(unit.arg, "robots")
  /\ ~Failed(unit.arg, "sitemap")
  /\ ~Failed(unit.arg, "canonical")
  /\ ~Failed(unit.arg, "http")
  /\ ~Failed(unit.arg, "noindex")
  /\ unit.out.pre > 80
  /\ unit.out.overall = 80

\* the categories with a score: those that have a check that counts
Scored(catScores) == { c \in Categories : catScores[c] # NullScore }

\* the weighted harmonic mean over every scored category, times 100, rounded
MeanOfScored(catScores) ==
  LET h == MeanOver(catScores, Scored(catScores))
  IN  Round(100 * h[1], h[2])

\* C17: the score before the gates is the weighted harmonic mean over every
\* category that has a score, each clamped to [0.05, 1]; a category whose
\* checks all fail takes part with 0.05.
C17_ZeroCategoryCounts ==
  Called("computeOverall") =>
    LET r == unit.out
    IN  Scored(r.catScores) # {} => r.pre = MeanOfScored(r.catScores)

\* u and v differ at most in query string, fragment, host letter case and
\* the trailing slashes of the path
SameBut(u, v) ==
  /\ u.scheme = v.scheme
  /\ LowerCase(u.host) = LowerCase(v.host)
  /\ u.segs = v.segs

\* both have a trailing slash or neither has; a path without segments is "/"
\* either way
SameEnd(u, v) == u.segs = <<>> \/ ((u.slashes = 0) <=> (v.slashes = 0))

Idempotent(k) == normalizeKey(k) = k

\* C18: normalizeKey is idempotent, and two URLs that parse and differ only
\* in query string, fragment, host letter case or the number (one or more)
\* of trailing slashes have the same key; a path with a trailing slash and
\* the same path without one have different keys.
C18_KeyCollapses ==
  Called("normalizeKey") =>
    LET u == unit.arg[1]
        v == unit.arg[2]
    IN  /\ Idempotent(unit.out[1]) /\ Idempotent(unit.out[2])
        /\ (SameBut(u, v) /\ ~Throws(u) /\ ~Throws(v))
             => (unit.out[1] = unit.out[2] <=> SameEnd(u, v))

\* /a//?q#h on OK.test and /a/ on ok.test
C18_Witness ==
  /\ Called("normalizeKey")
  /\ unit.arg[1] = Url("", "OK.test", <<"a">>, 2, "q", "h")
  /\ unit.arg[2] = Url("", "ok.test", <<"a">>, 1, "", "")
  /\ unit.out[1] = unit.out[2]

\* C18 as stated: the presence of a trailing slash does not change the key
\* either, for every input.
C18_KeyIgnores ==
  Called("normalizeKey") =>
    /\ Idempotent(unit.out[1]) /\ Idempotent(unit.out[2])
    /\ SameBut(unit.arg[1], unit.arg[2]) => unit.out[1] = unit.out[2]

(***************************************************************************)
(* Properties of the input check of POST (specification Spec).             *)
(***************************************************************************)
\* the body of the POST has no url, or one that is not a string
InvalidPost(s) == req[s].method = "POST" /\ req[s].param \in {"none", "array"}

\* C19: a POST whose body has a missing or non-string url is answered with
\* 400 and an error body by the step that handles it, which calls no
\* runAudit (no probe goes out) and leaves the cache as it is.
C19_InvalidUrlIs400 ==
  [][\A s \in Slots :
       (InvalidPost(s) /\ pc[s] = "start" /\ pc'[s] # "start")
       => /\ pc'[s] = "done"
          /\ resp'[s].status = 400
          /\ resp'[s].kind = "error"
          /\ aud'[s] = NoAud
          /\ CACHE' = CACHE]_vars

(***************************************************************************)
(* Properties of the canonical check (specification SpecUnit).             *)
(***************************************************************************)
\* the href of tag t, resolved against finalUrl, is finalUrl but for query,
\* fragment, trailing slashes and host letter case
PointsHome(finalUrl, t) ==
  LET target == IF t.scheme = "" THEN finalUrl ELSE t
  IN  /\ target.scheme = finalUrl.scheme
      /\ LowerCase(target.host) = LowerCase(finalUrl.host)
      /\ t.segs = finalUrl.segs

HrefsOf(canonTags) == { i \in 1..Len(canonTags) : canonTags[i] # NoUrl }

\* C20: the canonical check is pass iff the page has exactly one canonical
\* tag and its href points at finalUrl; it is warn when a tag has an href
\* and either the href points elsewhere or there are several tags; it is
\* fail when no tag has an href.
C20_CanonicalStatus ==
  Called("canonical") =>
    LET f == unit.arg.finalUrl
        tags == unit.arg.canonTags
        single == Len(tags) = 1 /\ tags[1] # NoUrl
    IN  /\ unit.out = "pass" <=> (single /\ PointsHome(f, tags[1]))
        /\ (single /\ ~PointsHome(f, tags[1])) => unit.out = "warn"
        /\ (Len(tags) > 1 /\ HrefsOf(tags) # {}) => unit.out = "warn"
        /\ HrefsOf(tags) = {} => unit.out = "fail"

(***************************************************************************)
(* Properties of the noindex checks (specification SpecUnit).              *)
(***************************************************************************)
\* the value holds the directive noindex or the directive none
NoindexDirective(str) ==
  \E i \in DOMAIN Directives(LowerCase(str)) :
    Directives(LowerCase(str))[i] \in {<<"noindex">>, <<"none">>}

\* C21: the noindex check is fail iff one of meta[robots], meta[googlebot],
\* meta[bingbot] and the X-Robots-Tag header holds the directive noindex or
\* none, and pass otherwise; the meta-robots check is warn exactly when
\* noindex is fail, pass otherwise.
C21_NoindexDirective ==
  Called("noindex") =>
    /\ unit.out.noindex =
         (IF \E i \in 1..4 : NoindexDirective(unit.arg[i]) THEN "fail" ELSE "pass")
    /\ unit.out.metaRobots = (IF unit.out.noindex = "fail" THEN "warn" ELSE "pass")

(***************************************************************************)
(* Properties of the legacy snapshot lookup (specification Spec).          *)
(***************************************************************************)
LegacyGet(s) == req[s].method = "GET" /\ req[s].param = "id"

\* the paths asked for so far, and whether lookup i failed (answered, but
\* not with a snapshot)
PathsAsked(s) == [i \in DOMAIN aud[s].lookups |-> aud[s].lookups[i].path]
LookupFailed(s, i) == aud[s].lookups[i].outcome \in {"notfound", "badjson"}

\* the handler of s has not entered runAudit
NoAuditRun(s) ==
  /\ pc[s] \in {"start", "id1", "id2", "respond", "done"}
  /\ aud[s].startedAt = 0 /\ aud[s].checks = <<>> /\ aud[s].out = NoPayload

LegacyOrder(s) ==
  /\ PathsAsked(s) \in {<<>>, <<"id.json">>, <<"id.json", "id">>}
  /\ Len(aud[s].lookups) = 2 => LookupFailed(s, 1)
  /\ NoAuditRun(s)
  /\ pc[s] = "done" =>
       /\ aud[s].lookups # <<>>
       /\ aud[s].lookups[Len(aud[s].lookups)].outcome = "ok"
            => resp[s].status = 200 /\ resp[s].kind = "snapshot"
       /\ resp[s].kind = "snapshot" =>
            aud[s].lookups[Len(aud[s].lookups)].outcome = "ok"
       /\ resp[s].status = 404 <=>
            (Len(aud[s].lookups) = 2 /\ LookupFailed(s, 1) /\ LookupFailed(s, 2))
       /\ resp[s].status = 404 =>
            resp[s].attempted = <<BlobUrl("id.json"), BlobUrl("id")>>

\* C22: a GET ?id= asks for <id>.json first and for the bare <id> only
\* after the first lookup failed; the first success is answered 200 with
\* fromSnapshot, a 404 naming both URLs is answered exactly when both
\* lookups failed, no audit runs and no step of the request changes the
\* cache.
C22_LegacyLookup ==
  /\ [](\A s \in Slots : LegacyGet(s) => LegacyOrder(s))
  /\ [][\A s \in Slots :
          (LegacyGet(s) /\ pc'[s] # pc[s]) => CACHE' = CACHE]_vars

\* <id>.json was not found, <id> was, and the snapshot is returned while the
\* cache holds an entry
C22_Witness ==
  \E s \in Slots :
    /\ LegacyGet(s)
    /\ pc[s] = "done"
    /\ PathsAsked(s) = <<"id.json", "id">>
    /\ aud[s].lookups[1].outcome = "notfound"
    /\ resp[s].status = 200 /\ resp[s].kind = "snapshot"
    /\ DOMAIN CACHE # {}

(***************************************************************************)
(* Properties of the sub-request counter (specification SpecAudit).        *)
(***************************************************************************)
\* runAudit of s is under way
Auditing(s) == pc[s] \notin {"idle", "start", "done"}

\* spend(n) on a counter of b: true and b - n when n remain, false and b
\* otherwise
SpendContract(b, n) ==
  /\ spendOk(b, n) <=> b >= n
  /\ spendLeft(b, n) = (IF b >= n THEN b - n ELSE b)

\* C23: the counter starts at MAX_SUBREQUESTS, is never negative and never
\* increases during an audit; spend(n) takes exactly n when n remain and
\* nothing otherwise.
C23_CounterNeverNegative ==
  /\ [](\A s \in Slots :
          /\ aud[s].budget \in 0..MAX_SUBREQUESTS
          /\ \A b \in 0..aud[s].budget, n \in 1..2 : SpendContract(b, n))
  /\ [][\A s \in Slots :
          /\ (pc[s] = "start" /\ Auditing(s)') => aud'[s].budget = MAX_SUBREQUESTS
          /\ (Auditing(s) /\ pc'[s] # "idle") =>
               \/ aud'[s].budget = aud[s].budget
               \/ \E n \in 1..2 : /\ spendOk(aud[s].budget, n)
                                  /\ aud'[s].budget = aud[s].budget - n]_vars

\* an audit whose probes have used the whole quota
C23_Witness ==
  \E s \in Slots :
    /\ Returned(s)
    /\ aud[s].budget = 0
    /\ HasId(aud[s].out, "psi")
    /\ HasId(aud[s].out, "img-size")

\* the awaits of the main page fetch, of robots.txt, of sitemap discovery
\* and of the favicon probe, on the three paths
Uncounted ==
  {"page", "blockedRetry", "favicon", "robots", "sitemap",
   "bRobots", "bSitemap", "tFavicon", "tRobots", "tSitemap"}

\* C24: the main page fetch, the robots.txt fetch, sitemap discovery and the
\* favicon probe leave the sub-request counter as it is, on the normal, the
\* BLOCKED and the TIMEOUT path.
C24_UncountedProbes ==
  [][\A s \in Slots :
       (pc[s] \in Uncounted /\ pc'[s] # pc[s]) => aud'[s].budget = aud[s].budget]_vars

(***************************************************************************)
(* Properties of the timers of the probes (specification SpecAudit).       *)
(***************************************************************************)
\* C25: every probe is issued under a timer computed by within(ms) that is
\* no longer than timeLeft() at the moment the probe is issued.
C25_TimerWithinBudget == \A s \in Slots : ~aud[s].late

(***************************************************************************)
(* Properties of retry and tryHeadThenGet (specification SpecUnit).        *)
(***************************************************************************)
Retryable(a) == a.kind \in {"abort", "neterr"}

\* C26: retry calls op at most `tries` times, calls it again only after it
\* threw an AbortError or a transient network error while attempts remain,
\* returns the response op resolves with whatever its status, and rethrows
\* an error that is not retryable or that the last attempt threw.
C26_RetryContract ==
  Called("retry") =>
    LET log == unit.out.log
        n == Len(log)
    IN  /\ n \in 1..unit.arg.tries
        /\ \A i \in 1..(n - 1) : Retryable(log[i])
        /\ Retryable(log[n]) => n = unit.arg.tries
        /\ unit.out.kind = log[n].kind
        /\ unit.out.status = log[n].status

\* a transient error, then a 404 that is returned as it is
C26_Witness ==
  /\ Called("retry")
  /\ unit.arg.tries = 2
  /\ Len(unit.out.log) = 2
  /\ unit.out.log[1].kind = "neterr"
  /\ unit.out.kind = "res"
  /\ unit.out.status = 404

\* the requests of the attempt, the HEAD and the GET if there is one
HeadOf(run) == run.reqs[1]
GetIssued(run) == \E i \in 1..Len(run.reqs) : run.reqs[i].method = "GET"
HeadFirst(run) ==
  /\ Len(run.reqs) \in {1, 2}
  /\ run.reqs[1].method = "HEAD"
  /\ Len(run.reqs) = 2 => run.reqs[2].method = "GET" /\ run.reqs[2].at >= run.reqs[1].at

\* C27: tryHeadThenGet issues HEAD before any GET, and issues the GET iff the
\* HEAD produced no response, or returned 405 or 501, or (with
\* fallbackOnNonOk) a status outside 200-399; a 2xx or 3xx HEAD is returned
\* without a GET
C27_HeadThenGet ==
  Called("tryHeadThenGet") =>
    LET h == HeadOf(unit.out)
    IN  /\ HeadFirst(unit.out)
        /\ GetIssued(unit.out) <=>
             \/ h.kind # "res"
             \/ h.status \in {405, 501}
             \/ (unit.arg.fallbackOnNonOk /\ ~(h.status >= 200 /\ h.status < 400))
        /\ (h.kind = "res" /\ h.status >= 200 /\ h.status < 400) =>
             /\ ~GetIssued(unit.out)
             /\ unit.out.status = h.status

\* the sitemap the discovery of s found is gzipped: its final URL ends in
\* .gz or its content type is a gzip type
FoundGzipped(s) ==
  /\ aud[s].found
  /\ aud[s].sitemapRes # <<>>
  /\ LET r == aud[s].sitemapRes[1]
     IN  r.final = ".gz" \/ r.ct \in {"application/gzip", "application/x-gzip"}

\* C28: when the discovered sitemap is gzipped the sitemap check is warn, and
\* after the discovery no request is made for the sitemap content, no sitemap
\* URL is sampled and the sub-request counter is not decremented for a sample
C28_GzippedSitemap ==
  /\ [](\A s \in Slots :
          FoundGzipped(s) =>
            /\ pc[s] # "sample"
            /\ HasId(aud[s], "sitemap") => StatusOf(aud[s], "sitemap") = "warn"
            /\ aud[s].out.ok => StatusOf(aud[s].out, "sitemap") = "warn")
  /\ [][\A s \in Slots :
          FoundGzipped(s) /\ pc[s] = "sitemap" /\ aud'[s] # aud[s] =>
            /\ pc'[s] = "www"
            /\ aud'[s].sent = aud[s].sent
            /\ aud'[s].budget = aud[s].budget
            /\ aud'[s].checks = Append(aud[s].checks, Chk("sitemap", "warn"))]_vars

C28_Witness ==
  \E s \in Slots :
    /\ FoundGzipped(s)
    /\ aud[s].sitemapRes[1].final = ".xml"
    /\ aud[s].out.ok
    /\ StatusOf(aud[s].out, "sitemap") = "warn"
    /\ aud[s].budget > 0

\* the step of s issues the PageSpeed Insights request: the last step of
\* runAudit, on the normal path or in timeoutPartial, sends a request
PsiIssued(s) ==
  /\ pc[s] \in {"img", "tSitemap"}
  /\ pc'[s] = "ret"
  /\ aud'[s].sent > aud[s].sent

\* C29: the PageSpeed Insights request is issued only when a PSI API key is
\* configured and at least 2 s of the overall budget remain; with no key
\* there is no PSI request and no psi check in the report
C29_PsiNeedsKey ==
  /\ [](\A s \in Slots :
          ~env.psiKey =>
            /\ ~HasId(aud[s], "psi")
            /\ aud[s].out.ok => ~HasId(aud[s].out, "psi"))
  /\ [][\A s \in Slots :
          PsiIssued(s) =>
            /\ env.psiKey
            /\ timeLeft(wake[s], aud[s].startedAt) >= 2000]_vars

\* the fan-out of the sitemap samples, under way or done
InFanOut == unit.fn = "sampleFanOut"
SampleRequests == {j \in 1..Len(unit.out.events) : unit.out.events[j].op = "request"}

FaviconStep(s) == pc[s] = "favicon" /\ pc'[s] = "robots"
FaviconCheck(s) == aud'[s].checks[Len(aud'[s].checks)]

\* C31: in a normal-path report the favicon check is pass when the HEAD/GET
\* probe returned OK, warn when the probe ran and the icon did not load, and
\* fail when no probe was made
C31_FaviconStatus ==
  [][\A s \in Slots :
       FaviconStep(s) =>
         /\ FaviconCheck(s).id = "favicon"
         /\ FaviconCheck(s).status =
              IF aud'[s].last = "skip" THEN "fail"
              ELSE IF aud'[s].lastOk THEN "pass"
              ELSE "warn"]_vars

\* C32: with the default LIMITS every spend() of the normal path succeeds,
\* whatever the page holds and the probes answer: the probes ask for at most
\* 1 + 1 + 1 + 1 + 2 + 2 = 8 units, so none of them, PSI's spend(2) included,
\* is skipped for lack of quota
C32_SpendNeverRefused ==
  \A s \in Slots :
    /\ ~aud[s].refused
    /\ pc[s] \in {"og", "favicon", "sample", "www"} => spendOk(aud[s].budget, 1)
    /\ pc[s] = "img" => spendOk(aud[s].budget, 2)

\* an audit that asked for all eight units and got them
C32_Witness ==
  \E s \in Slots :
    /\ aud[s].out.ok
    /\ ~aud[s].out.blocked
    /\ ~aud[s].out.timeout
    /\ HasId(aud[s].out, "psi")
    /\ aud[s].budget = 0
    /\ ~aud[s].refused

\* C33: in one audit the requests sent by the probes that spend() guards (OG
\* image, favicon, sitemap sample, www variant, image HEADs, PSI), retries
\* and HEAD-then-GET fallbacks counted, never number more than MAX_SUBREQUESTS
C33_RequestsWithinQuota ==
  \A s \in Slots : aud[s].gated <= MAX_SUBREQUESTS

\* C34: every cache entry, stored under key k, has expiresAt = createdAt +
\* CACHE_TTL_MS, a payload with ok = true and without _diag, and the url of
\* its payload normalizes to k
C34_CacheEntryShape ==
  \A k \in DOMAIN CACHE :
    /\ CACHE[k].expiresAt = CACHE[k].createdAt + CACHE_TTL_MS
    /\ CACHE[k].payload.ok
    /\ ~CACHE[k].payload.diag
    /\ normalizeKey(CACHE[k].payload.url) = k

\* an entry written with DEBUG_AUDIT on, for a url that is not its own key
C34_Witness ==
  \E k \in DOMAIN CACHE :
    /\ env.debug
    /\ CACHE[k].payload.url = OkAgain
    /\ CACHE[k].payload.url # k
    /\ CACHE[k].createdAt > 0

\* s was answered with the report of an audit of its own, not a snapshot one
Audited(s) ==
  /\ Reported(s)
  /\ ~resp[s].cached
  /\ ~req[s].snapshot
  /\ aud[s].sent > 0

\* the audits of a and b overlapped: each started before the other returned
Overlapped(a, b) ==
  /\ a # b
  /\ Audited(a) /\ Audited(b)
  /\ Key(a) = Key(b)
  /\ aud[a].startedAt < resp[b].at
  /\ aud[b].startedAt < resp[a].at

Raised(cs, i) ==
  [cs EXCEPT ![i].status = IF cs[i].status = "fail" THEN "warn" ELSE "pass"]
Raisable(cs) ==
  { i \in 1..Len(cs) : usable(cs[i]) /\ cs[i].status \in {"fail", "warn"} }

\* C36: computeOverall is monotone in each check that counts: with one such
\* check changed from fail to warn or from warn to pass and the others as they
\* are, the overall score is not lower
C36_ScoreMonotone ==
  Called("computeOverall") =>
    \A i \in Raisable(unit.arg) :
      computeOverall(Raised(unit.arg, i)).overall >= unit.out.overall

\* s is on the TIMEOUT path because both attempts of the main page fetch were
\* aborted by their timers
BothAborted(s) ==
  /\ aud[s].path = "timeout"
  /\ Len(aud[s].pageLog) = 2
  /\ aud[s].pageLog[1].kind = "abort"
  /\ aud[s].pageLog[2].kind = "abort"

\* C37: with the default budget, when the TIMEOUT path is entered after both
\* attempts of the page fetch were aborted, timeLeft() is 0 from the entry on:
\* the favicon and robots probes get the 150 ms floor, no sitemap candidate
\* is probed and the sitemap check is fail, and PSI is never requested
C37_TimeoutLeavesNothing ==
  /\ [](\A s \in Slots :
          BothAborted(s) =>
            /\ pc[s] \in {"tFavicon", "tRobots", "tSitemap"} =>
                 /\ timeLeft(wake[s], aud[s].startedAt) = 0
                 /\ within(TIME_ASSET_MS, wake[s], aud[s].startedAt) = 150
                 /\ within(TIME_SMALL_MS, wake[s], aud[s].startedAt) = 150
            /\ aud[s].cand = 0
            /\ ~aud[s].found
            /\ HasId(aud[s], "sitemap") => StatusOf(aud[s], "sitemap") = "fail"
            /\ ~HasId(aud[s], "psi")
            /\ aud[s].psi = NoPsi)
  /\ [][\A s \in Slots :
          (BothAborted(s) /\ pc[s] = "tSitemap" /\ pc'[s] # "tSitemap") =>
            /\ pc'[s] = "ret"
            /\ aud'[s].sent = aud[s].sent]_vars

C37_Witness ==
  \E s \in Slots :
    /\ BothAborted(s)
    /\ aud[s].out.ok
    /\ aud[s].out.timeout
    /\ StatusOf(aud[s].out, "sitemap") = "fail"
    /\ aud[s].sent >= 4
    /\ aud[s].late

\* the handler of s has returned its response
Answered(s) == pc[s] = "done" /\ resp[s] # NoResp

\* C38: when every fetch and body read settles, every GET or POST request is
\* answered, and with one response only: a response is set once, when the
\* handler returns, and stays until the slot is free again
C38_EveryRequestAnswered ==
  /\ \A s \in Slots : (pc[s] = "start") ~> Answered(s)
  /\ [][\A s \in Slots :
          resp'[s] # resp[s] =>
            \/ resp[s] = NoResp /\ pc[s] # "done" /\ Answered(s)'
            \/ resp'[s] = NoResp /\ pc[s] = "done" /\ pc'[s] = "idle"]_vars

\* a POST with snapshot: true on a site that times out, answered
C38_Witness ==
  \E s \in Slots :
    /\ Answered(s)
    /\ req[s].method = "POST"
    /\ aud[s].path = "timeout"
    /\ aud[s].sent > 0

====
